---- MODULE Spec2Model ----
(***************************************************************************)
(* cr: run the fenced code blocks found under a markdown heading.          *)
(*                                                                         *)
(* The model follows the Go program of src/main.go (lines 630-1170):       *)
(* parseDoc builds the command tree by walking the markdown AST with a     *)
(* stack of pointers into slices, findNode selects a node, executeNode     *)
(* merges the environment and spawns one interpreter per code block.       *)
(*                                                                         *)
(* Strings the program inspects (language tags, heading texts, code,       *)
(* table cells, environment keys and values, arguments) are sequences of   *)
(* one-character strings, so that substitution, trimming and case folding  *)
(* are computed; executable names are TLA+ strings.                        *)
(***************************************************************************)
EXTENDS Integers, Sequences, FiniteSets, TLC

VARIABLES
    doc,        \* the AST nodes ast.WalkFunc has entered so far, in walk order
    arrays,     \* heap: the backing arrays of []MD_NODE slices
    maps,       \* heap: the map[string]string objects made for Env
    commands,   \* parseDoc: var commands []MD_NODE (a slice header)
    stack,      \* parseDoc: var stack []*MD_NODE
    all,        \* config.all
    environ,    \* the environment of the tool's process, os.Environ()
    found,      \* main: *nodeFound, the node findNode returned a copy of
    args,       \* main: sub_args, the arguments after the heading
    blk,        \* executeNode: the place of the range loop in cmdNode.CodeBlocks
    runs,       \* the subprocesses spawned so far, in order of their spawn
    result,     \* what executeNode returned
    pc,         \* position of the program
    prog,       \* which main runs: "go" (src/main.go) or "c" (src/main.c)
    osArgs,     \* os.Args / argv, the name of the program first
    arg_index,  \* main: arg_index, counted from 0 as in the source
    config,     \* config: verbose, help, markdown, code, filePath
    fs,         \* the file system: the directories from the working
                \* directory up to the root, and the other files that exist
    located,    \* the number of calls of findDoc
    exitCode,   \* the exit status of the tool, -1 while it runs
    out,        \* what the tool wrote to standard output
    errs        \* the errors the tool reported on standard error

vars == <<doc, arrays, maps, commands, stack, all, environ, found, args, blk,
          runs, result, pc, prog, osArgs, arg_index, config, fs, located,
          exitCode, out, errs>>

parseVars == <<doc, arrays, maps, commands, stack>>
execVars == <<found, args, blk, runs, result>>
mainVars == <<prog, osArgs, arg_index, config, fs, located, exitCode, out, errs>>

---------------------------------------------------------------------------
(* Bounds *)

MaxLevel == 3

---------------------------------------------------------------------------
(* Strings *)

UpperChars == <<"A","B","C","D","E","F","G","H","I","J","K","L","M",
                "N","O","P","Q","R","S","T","U","V","W","X","Y","Z">>
LowerChars == <<"a","b","c","d","e","f","g","h","i","j","k","l","m",
                "n","o","p","q","r","s","t","u","v","w","x","y","z">>

LowerChar(c) ==
    IF \E i \in DOMAIN UpperChars : UpperChars[i] = c
    THEN LowerChars[CHOOSE i \in DOMAIN UpperChars : UpperChars[i] = c]
    ELSE c

ToLower(s) == [i \in DOMAIN s |-> LowerChar(s[i])]

\* strings.EqualFold
EqualFold(s, t) == ToLower(s) = ToLower(t)

\* strings.Index: the first position where old occurs in s, 0 when it does not
Index(s, old) ==
    LET hits == {i \in 1..(Len(s) + 1 - Len(old)) :
                    SubSeq(s, i, i + Len(old) - 1) = old}
    IN IF hits = {} THEN 0 ELSE CHOOSE i \in hits : \A j \in hits : i <= j

\* strings.Replace(s, old, new, 1)
ReplaceFirst(s, old, new) ==
    LET i == Index(s, old)
    IN IF i = 0 THEN s
       ELSE SubSeq(s, 1, i - 1) \o new \o SubSeq(s, i + Len(old), Len(s))

---------------------------------------------------------------------------
(* The language dispatch table *)

CODE == <<"$","C","O","D","E">>
ShellArgs == << <<"-","e","u","c">>, CODE, <<"-","-">> >>

LangCfg(name, template) == [cmdName |-> name, prefixArgs |-> template]

languageConfigs ==
       (<<"a","w","k">>     :> LangCfg("awk",  << CODE >>))
    @@ (<<"s","h">>         :> LangCfg("sh",   ShellArgs))
    @@ (<<"b","a","s","h">> :> LangCfg("bash", ShellArgs))
    @@ (<<"z","s","h">>     :> LangCfg("zsh",  ShellArgs))
    @@ (<<"f","i","s","h">> :> LangCfg("fish", ShellArgs))
    @@ (<<"d","a","s","h">> :> LangCfg("dash", ShellArgs))
    @@ (<<"k","s","h">>     :> LangCfg("ksh",  ShellArgs))
    @@ (<<"a","s","h">>     :> LangCfg("ash",  ShellArgs))
    @@ (<<"s","h","e","l","l">> :> LangCfg("sh", ShellArgs))
    @@ (<<"j","s">>         :> LangCfg("node", << <<"-","e">>, CODE >>))
    @@ (<<"j","a","v","a","s","c","r","i","p","t">>
                            :> LangCfg("node", << <<"-","e">>, CODE >>))
    @@ (<<"p","y">>         :> LangCfg("python", << <<"-","c">>, CODE >>))
    @@ (<<"p","y","t","h","o","n">>
                            :> LangCfg("python", << <<"-","c">>, CODE >>))
    @@ (<<"r","b">>         :> LangCfg("ruby", << <<"-","e">>, CODE >>))
    @@ (<<"r","u","b","y">> :> LangCfg("ruby", << <<"-","e">>, CODE >>))
    @@ (<<"p","h","p">>     :> LangCfg("php",  << <<"-","r">>, CODE >>))
    @@ (<<"c","m","d">>     :> LangCfg("cmd.exe", << <<"/","c">>, CODE >>))
    @@ (<<"b","a","t","c","h">>
                            :> LangCfg("cmd.exe", << <<"/","c">>, CODE >>))
    @@ (<<"p","o","w","e","r","s","h","e","l","l">>
                            :> LangCfg("powershell.exe", << <<"-","c">>, CODE >>))

---------------------------------------------------------------------------
(* The heap: slices of MD_NODE and pointers into them *)

\* a slice header: backing array and length (the capacity is the array's)
nilSlice == [arr |-> 0, len |-> 0]
\* a *MD_NODE: backing array and index
nilPtr == [arr |-> 0, idx |-> 0]

\* MD_NODE{Heading: *v}; hid is the identity of the heading (its place in the
\* walk), Level and Text are Heading.Level and the literal of its first child
MD_NODE(hid, level, text) ==
    [hid |-> hid, Level |-> level, Text |-> text,
     CodeBlocks |-> <<>>, Children |-> nilSlice, Env |-> 0,
     Parent |-> nilPtr, Description |-> <<>>]

Cap(arrs, h) == IF h.arr = 0 THEN 0 ELSE arrs[h.arr].cap

\* the elements a slice header sees
Elems(arrs, h) == IF h.arr = 0 THEN <<>> ELSE SubSeq(arrs[h.arr].elems, 1, h.len)

Deref(arrs, p) == arrs[p.arr].elems[p.idx]

\* The capacities append may give a new backing array of a slice of length n:
\* at least n + 1; the runtime doubles small slices.
GrowCaps(n) == {n + 1, IF n = 0 THEN 1 ELSE 2 * n}

\* append(h, node): in place when the capacity allows, else the elements are
\* copied to a new backing array of capacity newcap
AppendNode(arrs, h, node, newcap) ==
    IF h.len < Cap(arrs, h)
    THEN LET old == arrs[h.arr].elems
             new == IF h.len < Len(old)
                    THEN [old EXCEPT ![h.len + 1] = node]
                    ELSE Append(old, node)
         IN [hdr    |-> [arr |-> h.arr, len |-> h.len + 1],
             arrays |-> [arrs EXCEPT ![h.arr].elems = new]]
    ELSE [hdr    |-> [arr |-> Len(arrs) + 1, len |-> h.len + 1],
          arrays |-> Append(arrs, [cap   |-> newcap,
                                   elems |-> Append(Elems(arrs, h), node)])]

---------------------------------------------------------------------------
(* parseDoc *)

Top(stk) == stk[Len(stk)]

\* a loop that pops only the deeper headings: Level > v.Level
RECURSIVE PopStackDeeper(_, _, _)
PopStackDeeper(arrs, stk, level) ==
    IF stk # <<>> /\ Deref(arrs, Top(stk)).Level > level
    THEN PopStackDeeper(arrs, SubSeq(stk, 1, Len(stk) - 1), level)
    ELSE stk

\* for len(stack) > 0 && stack[len(stack)-1].Heading.Level >= v.Level
RECURSIVE PopStack(_, _, _)
PopStack(arrs, stk, level) ==
    IF stk # <<>> /\ Deref(arrs, Top(stk)).Level >= level
    THEN PopStack(arrs, SubSeq(stk, 1, Len(stk) - 1), level)
    ELSE stk

Walking == pc = "parse"

\* the code blocks of the document so far, all of them before its first heading
RECURSIVE BlocksSoFar(_)
BlocksSoFar(items) ==
    IF items = <<>> THEN <<>>
    ELSE LET rest == BlocksSoFar(Tail(items))
         IN IF Head(items).type = "CodeBlock"
            THEN <<[Info |-> Head(items).Info, Literal |-> Head(items).Literal]>> \o rest
            ELSE rest

\* a builder whose first heading adopts the code blocks that precede it
ParseHeadingAdopt(level, text) ==
    /\ Walking
    /\ doc' = Append(doc, [type |-> "Heading", Level |-> level, Text |-> text])
    /\ LET first   == commands.len = 0
           cmdNode == [MD_NODE(Len(doc) + 1, level, text) EXCEPT
                          !.CodeBlocks = IF first THEN BlocksSoFar(doc) ELSE <<>>]
           stk     == PopStack(arrays, stack, level)
       IN IF stk = <<>>
          THEN \E newcap \in GrowCaps(commands.len) :
                 LET r == AppendNode(arrays, commands, cmdNode, newcap)
                 IN /\ commands' = r.hdr
                    /\ arrays' = r.arrays
                    /\ stack' = << [arr |-> r.hdr.arr, idx |-> r.hdr.len] >>
          ELSE LET parent == Top(stk)
                   kids   == Deref(arrays, parent).Children
               IN \E newcap \in GrowCaps(kids.len) :
                    LET r  == AppendNode(arrays, kids, cmdNode, newcap)
                        a1 == [r.arrays EXCEPT
                                 ![parent.arr].elems[parent.idx].Children = r.hdr]
                        current == [arr |-> r.hdr.arr, idx |-> r.hdr.len]
                    IN /\ arrays' = [a1 EXCEPT
                                 ![current.arr].elems[current.idx].Parent = parent]
                       /\ stack' = Append(stk, current)
                       /\ UNCHANGED commands
    /\ UNCHANGED <<maps, all, environ, execVars, pc, mainVars>>

\* a builder that works on a copy of the parent: the grown Children slice is
\* not stored in the node the stack points to
ParseHeadingByValue(level, text) ==
    /\ Walking
    /\ doc' = Append(doc, [type |-> "Heading", Level |-> level, Text |-> text])
    /\ LET cmdNode == MD_NODE(Len(doc) + 1, level, text)
           stk     == PopStack(arrays, stack, level)
       IN IF stk = <<>>
          THEN \E newcap \in GrowCaps(commands.len) :
                 LET r == AppendNode(arrays, commands, cmdNode, newcap)
                 IN /\ commands' = r.hdr
                    /\ arrays' = r.arrays
                    /\ stack' = << [arr |-> r.hdr.arr, idx |-> r.hdr.len] >>
          ELSE LET parent == Top(stk)
                   kids   == Deref(arrays, parent).Children
               IN \E newcap \in GrowCaps(kids.len) :
                    LET r  == AppendNode(arrays, kids, cmdNode, newcap)
                        current == [arr |-> r.hdr.arr, idx |-> r.hdr.len]
                    IN /\ arrays' = [r.arrays EXCEPT
                                 ![current.arr].elems[current.idx].Parent = parent]
                       /\ stack' = Append(stk, current)
                       /\ UNCHANGED commands
    /\ UNCHANGED <<maps, all, environ, execVars, pc, mainVars>>

\* a builder that leaves the Parent of a child nil
ParseHeadingNoParent(level, text) ==
    /\ Walking
    /\ doc' = Append(doc, [type |-> "Heading", Level |-> level, Text |-> text])
    /\ LET cmdNode == MD_NODE(Len(doc) + 1, level, text)
           stk     == PopStack(arrays, stack, level)
       IN IF stk = <<>>
          THEN \E newcap \in GrowCaps(commands.len) :
                 LET r == AppendNode(arrays, commands, cmdNode, newcap)
                 IN /\ commands' = r.hdr
                    /\ arrays' = r.arrays
                    /\ stack' = << [arr |-> r.hdr.arr, idx |-> r.hdr.len] >>
          ELSE LET parent == Top(stk)
                   kids   == Deref(arrays, parent).Children
               IN \E newcap \in GrowCaps(kids.len) :
                    LET r  == AppendNode(arrays, kids, cmdNode, newcap)
                        current == [arr |-> r.hdr.arr, idx |-> r.hdr.len]
                    IN /\ arrays' = [r.arrays EXCEPT
                                 ![parent.arr].elems[parent.idx].Children = r.hdr]
                       /\ stack' = Append(stk, current)
                       /\ UNCHANGED commands
    /\ UNCHANGED <<maps, all, environ, execVars, pc, mainVars>>

\* case *ast.Heading
ParseHeading(level, text) ==
    /\ Walking
    /\ doc' = Append(doc, [type |-> "Heading", Level |-> level, Text |-> text])
    /\ LET cmdNode == MD_NODE(Len(doc) + 1, level, text)
           stk     == PopStack(arrays, stack, level)
       IN IF stk = <<>>
          THEN \E newcap \in GrowCaps(commands.len) :
                 LET r == AppendNode(arrays, commands, cmdNode, newcap)
                 IN /\ commands' = r.hdr
                    /\ arrays' = r.arrays
                    /\ stack' = << [arr |-> r.hdr.arr, idx |-> r.hdr.len] >>
          ELSE LET parent == Top(stk)
                   kids   == Deref(arrays, parent).Children
               IN \E newcap \in GrowCaps(kids.len) :
                    LET r  == AppendNode(arrays, kids, cmdNode, newcap)
                        a1 == [r.arrays EXCEPT
                                 ![parent.arr].elems[parent.idx].Children = r.hdr]
                        current == [arr |-> r.hdr.arr, idx |-> r.hdr.len]
                    IN /\ arrays' = [a1 EXCEPT
                                 ![current.arr].elems[current.idx].Parent = parent]
                       /\ stack' = Append(stk, current)
                       /\ UNCHANGED commands
    /\ UNCHANGED <<maps, all, environ, execVars, pc, mainVars>>

\* The inline children of a paragraph are records [type, Literal].
\* description.WriteString(strings.ReplaceAll(literal, "\n", " ")) for a Text,
\* description.WriteString("\n") for a Hardbreak
RECURSIVE Flatten(_)
Flatten(children) ==
    IF children = <<>> THEN <<>>
    ELSE LET c == Head(children)
             s == CASE c.type = "Text" ->
                         [i \in DOMAIN c.Literal |->
                             IF c.Literal[i] = "\n" THEN " " ELSE c.Literal[i]]
                    [] c.type = "Hardbreak" -> <<"\n">>
                    [] OTHER -> <<>>
         IN s \o Flatten(Tail(children))

\* a builder whose every paragraph under a heading sets the description
ParseParagraphAlways(children) ==
    /\ Walking
    /\ doc' = Append(doc, [type |-> "Paragraph", Children |-> children])
    /\ IF stack # <<>>
       THEN arrays' = [arrays EXCEPT
                ![Top(stack).arr].elems[Top(stack).idx].Description =
                    Flatten(children)]
       ELSE UNCHANGED arrays
    /\ UNCHANGED <<maps, commands, stack, all, environ, execVars, pc, mainVars>>

\* case *ast.Paragraph
ParseParagraph(children) ==
    /\ Walking
    /\ doc' = Append(doc, [type |-> "Paragraph", Children |-> children])
    /\ IF /\ stack # <<>>
          /\ Deref(arrays, Top(stack)).Description = <<>>
          /\ Len(Deref(arrays, Top(stack)).CodeBlocks) = 0
       THEN arrays' = [arrays EXCEPT
                ![Top(stack).arr].elems[Top(stack).idx].Description =
                    Flatten(children)]
       ELSE UNCHANGED arrays
    /\ UNCHANGED <<maps, commands, stack, all, environ, execVars, pc, mainVars>>

\* a builder that ignores config.all
RetainedKnownOnly(info) == info \in DOMAIN languageConfigs

\* a builder that keeps every code block, whatever the flag
RetainedAlways(info) == TRUE

\* if _, exists := languageConfigs[string(v.Info)]; config.all || exists
Retained(info) == all \/ info \in DOMAIN languageConfigs

\* case *ast.CodeBlock
ParseCodeBlock(info, literal) ==
    /\ Walking
    /\ doc' = Append(doc, [type |-> "CodeBlock", Info |-> info, Literal |-> literal])
    /\ IF stack # <<>> /\ Retained(info)
       THEN arrays' = [arrays EXCEPT
                ![Top(stack).arr].elems[Top(stack).idx].CodeBlocks =
                    Append(@, [Info |-> info, Literal |-> literal])]
       ELSE UNCHANGED arrays
    /\ UNCHANGED <<maps, commands, stack, all, environ, execVars, pc, mainVars>>

\* A table cell is the sequence of its inline children, records [type, Literal];
\* an empty cell has none.
TextCell(s) == << [type |-> "Text", Literal |-> s] >>
EmptyCell == <<>>

\* The ast.TableRow nodes of a table in walk order: the row of the TableHeader,
\* then the rows of the TableBody
TableRows(table) == <<table.Header>> \o table.Rows

\* The walk over the rows of one table: the Env map after it, and whether
\* GetChildren()[0] indexed a cell without children
RECURSIVE WalkRows(_, _)
WalkRows(rows, env) ==
    IF rows = <<>> THEN [env |-> env, panicked |-> FALSE]
    ELSE LET v == Head(rows) IN
         IF Len(v) >= 2
         THEN LET keyNode == v[1]
                  valNode == v[2]
              IN IF keyNode = <<>> THEN [env |-> env, panicked |-> TRUE]
                 ELSE IF keyNode[1].type = "Text"
                 THEN IF valNode = <<>> THEN [env |-> env, panicked |-> TRUE]
                      ELSE IF valNode[1].type = "Text"
                      THEN WalkRows(Tail(rows),
                               (keyNode[1].Literal :> valNode[1].Literal) @@ env)
                      ELSE WalkRows(Tail(rows), env)
                 ELSE WalkRows(Tail(rows), env)
         ELSE WalkRows(Tail(rows), env)

\* case *ast.Table
ParseTable(table) ==
    /\ Walking
    /\ doc' = Append(doc, [type |-> "Table", Header |-> table.Header,
                           Rows |-> table.Rows])
    /\ IF stack # <<>>
       THEN LET current == Top(stack)
                made    == Deref(arrays, current).Env = 0
                ref     == IF made THEN Len(maps) + 1
                           ELSE Deref(arrays, current).Env
                maps1   == IF made THEN Append(maps, <<>>) ELSE maps
                r       == WalkRows(TableRows(table), maps1[ref])
            IN /\ arrays' = [arrays EXCEPT
                     ![current.arr].elems[current.idx].Env = ref]
               /\ maps' = [maps1 EXCEPT ![ref] = r.env]
               /\ pc' = IF r.panicked THEN "panic" ELSE pc
       ELSE UNCHANGED <<arrays, maps, pc>>
    /\ UNCHANGED <<commands, stack, all, environ, execVars, mainVars>>

\* return commands
ParseReturn ==
    /\ pc = "parse"
    /\ pc' = "parsed"
    /\ UNCHANGED <<parseVars, all, environ, execVars, mainVars>>

---------------------------------------------------------------------------
(* tryCreateKeyValueMap, of the variant of the program that keeps a node's    *)
(* tables and key-value maps apart                                            *)

\* extractText of a table cell: the literals of its Text children
RECURSIVE extractText(_)
extractText(cell) ==
    IF cell = <<>> THEN <<>>
    ELSE (IF Head(cell).type = "Text" THEN Head(cell).Literal ELSE <<>>)
            \o extractText(Tail(cell))

\* strings.TrimSpace
RECURSIVE TrimSpace(_)
TrimSpace(s) ==
    IF s # <<>> /\ Head(s) = " " THEN TrimSpace(Tail(s))
    ELSE IF s # <<>> /\ s[Len(s)] = " " THEN TrimSpace(SubSeq(s, 1, Len(s) - 1))
    ELSE s

\* kvMap[key] = value for the rows of two cells or more, the key not empty
RECURSIVE PopulateRows(_, _, _)
PopulateRows(rows, keyFirst, kvMap) ==
    IF rows = <<>> THEN kvMap
    ELSE LET row == [i \in DOMAIN Head(rows) |-> extractText(Head(rows)[i])]
             k   == TrimSpace(IF keyFirst THEN row[1] ELSE row[2])
             v   == TrimSpace(IF keyFirst THEN row[2] ELSE row[1])
         IN IF Len(row) >= 2 /\ k # <<>>
            THEN PopulateRows(Tail(rows), keyFirst, (k :> v) @@ kvMap)
            ELSE PopulateRows(Tail(rows), keyFirst, kvMap)

\* [isMap |-> FALSE] is the nil map of a table that is no key-value table
tryCreateKeyValueMap(table) ==
    IF Len(table.Header) # 2 THEN [isMap |-> FALSE, kvMap |-> <<>>]
    ELSE LET header1 == ToLower(TrimSpace(extractText(table.Header[1])))
             header2 == ToLower(TrimSpace(extractText(table.Header[2])))
         IN IF /\ ~(header1 = <<"k","e","y">> /\ header2 = <<"v","a","l","u","e">>)
               /\ ~(header1 = <<"v","a","l","u","e">> /\ header2 = <<"k","e","y">>)
            THEN [isMap |-> FALSE, kvMap |-> <<>>]
            ELSE [isMap |-> TRUE,
                  kvMap |-> PopulateRows(table.Rows, header1 = <<"k","e","y">>, <<>>)]

---------------------------------------------------------------------------
(* main: the command line *)

\* strings.HasPrefix / strncmp(s, prefix, len(prefix)) == 0
HasPrefix(s, prefix) ==
    Len(s) >= Len(prefix) /\ SubSeq(s, 1, Len(prefix)) = prefix

\* the place of the last "/" of a path, 0 when it has none
LastSlash(p) ==
    LET at == {i \in DOMAIN p : p[i] = "/"}
    IN IF at = {} THEN 0 ELSE CHOOSE i \in at : \A j \in at : j <= i

\* path.Base / basename, of a path that does not end with "/"
Base(p) == IF p = <<>> THEN <<".">> ELSE SubSeq(p, LastSlash(p) + 1, Len(p))

\* path.Dir of an absolute path without a trailing "/" but the root's
Dir(p) == IF LastSlash(p) <= 1 THEN <<"/">> ELSE SubSeq(p, 1, LastSlash(p) - 1)

\* path.Join(dir, name) of an absolute directory and a file name
Join(dir, name) == IF dir = <<"/">> THEN dir \o name ELSE dir \o <<"/">> \o name

\* config as main finds it: every flag unset, no file path
ZeroConfig ==
    [verbose |-> FALSE, help |-> FALSE, all |-> FALSE, markdown |-> FALSE,
     code |-> FALSE, filePath |-> <<>>]

dashFile == <<"-","-","f","i","l","e">>
dashFileEq == <<"-","-","f","i","l","e","=">>
dashVerbose == <<"-","-","v","e","r","b","o","s","e">>
dashHelp == <<"-","-","h","e","l","p">>
dashAll == <<"-","-","a","l","l">>
dashMarkdown == <<"-","-","m","a","r","k","d","o","w","n">>
dashCode == <<"-","-","c","o","d","e">>

\* the path after -f within one argument: the rest of the argument in main.c
\* (current_arg + short_opt_index + 1), the start of the argument up to the f
\* in main.go (current_arg[:short_opt_index+1])
AttachedPath(p, current_arg, short_opt_index) ==
    IF p = "c"
    THEN SubSeq(current_arg, short_opt_index + 2, Len(current_arg))
    ELSE SubSeq(current_arg, 1, short_opt_index + 1)

\* the index after "--file PATH": main.c steps over PATH (arg_index++),
\* main.go does not
AfterLongFile(p, i) == IF p = "c" THEN i + 1 ELSE i

\* the loop over the characters of a short option argument, from the
\* character at short_opt_index (counted from 0); i is arg_index.
\* status "next": go on with the argument after i
RECURSIVE ShortOptions(_, _, _, _, _)
ShortOptions(p, argv, i, short_opt_index, cfg) ==
    LET current_arg == argv[i + 1]
        current_arg_len == Len(current_arg)
    IN IF short_opt_index >= current_arg_len
       THEN [status |-> "next", cfg |-> cfg, i |-> i]
       ELSE LET short_opt == current_arg[short_opt_index + 1]
                more(c) == ShortOptions(p, argv, i, short_opt_index + 1, c)
            IN CASE short_opt = "v" -> more([cfg EXCEPT !.verbose = TRUE])
                 [] short_opt = "h" -> more([cfg EXCEPT !.help = TRUE])
                 [] short_opt = "a" -> more([cfg EXCEPT !.all = TRUE])
                 [] short_opt = "m" -> more([cfg EXCEPT !.markdown = TRUE])
                 [] short_opt = "c" -> more([cfg EXCEPT !.code = TRUE])
                 [] short_opt = "f" ->
                      IF short_opt_index < current_arg_len - 1
                      THEN [status |-> "next", i |-> i,
                            cfg |-> [cfg EXCEPT !.filePath =
                                AttachedPath(p, current_arg, short_opt_index)]]
                      ELSE IF i < Len(argv) - 1
                      THEN IF argv[i + 2] = <<>> /\ p = "go"
                           THEN [status |-> "panic", cfg |-> cfg, i |-> i]
                           ELSE IF argv[i + 2] = <<>> \/ argv[i + 2][1] # "-"
                           THEN [status |-> "next", i |-> i + 1,
                                 cfg |-> [cfg EXCEPT !.filePath = argv[i + 2]]]
                           ELSE [status |-> "exit1", cfg |-> cfg, i |-> i]
                      ELSE [status |-> "exit1", cfg |-> cfg, i |-> i]
                 [] OTHER -> [status |-> "exit1", cfg |-> cfg, i |-> i]

\* one long option
LongOption(p, argv, i, cfg) ==
    LET current_arg == argv[i + 1]
    IN CASE current_arg = dashVerbose ->
              [status |-> "next", i |-> i, cfg |-> [cfg EXCEPT !.verbose = TRUE]]
         [] current_arg = dashHelp ->
              [status |-> "next", i |-> i, cfg |-> [cfg EXCEPT !.help = TRUE]]
         [] current_arg = dashAll ->
              [status |-> "next", i |-> i, cfg |-> [cfg EXCEPT !.all = TRUE]]
         [] current_arg = dashMarkdown ->
              [status |-> "next", i |-> i, cfg |-> [cfg EXCEPT !.markdown = TRUE]]
         [] current_arg = dashCode ->
              [status |-> "next", i |-> i, cfg |-> [cfg EXCEPT !.code = TRUE]]
         [] OTHER ->
              IF HasPrefix(current_arg, dashFileEq) /\ Len(current_arg) > 7
              THEN [status |-> "next", i |-> i,
                    cfg |-> [cfg EXCEPT !.filePath =
                                SubSeq(current_arg, 8, Len(current_arg))]]
              ELSE IF current_arg = dashFile /\ i < Len(argv) - 1
              THEN [status |-> "next", i |-> AfterLongFile(p, i),
                    cfg |-> [cfg EXCEPT !.filePath = argv[i + 2]]]
              ELSE [status |-> "exit1", cfg |-> cfg, i |-> i]

\* is this argument an option: current_arg_len > 1 && current_arg[0] == '-'
IsOption(current_arg) == Len(current_arg) > 1 /\ current_arg[1] = "-"

\* the loop over the arguments from arg_index i on: status "ok" with i the
\* index of the first argument that is no option (len(os.Args) when there is
\* none), "exit1" on a refused option, "panic" on an index out of range
\* a loop that stops at the heading but still honours a -v after it
RECURSIVE ParseOptionsScanAll(_, _, _, _)
ParseOptionsScanAll(p, argv, i, cfg) ==
    IF i >= Len(argv) THEN [status |-> "ok", cfg |-> cfg, i |-> i]
    ELSE LET current_arg == argv[i + 1]
         IN IF ~IsOption(current_arg)
            THEN [status |-> "ok",
                  cfg    |-> [cfg EXCEPT !.verbose =
                                 cfg.verbose
                                   \/ \E j \in (i + 2)..Len(argv) : argv[j] = <<"-","v">>],
                  i      |-> i]
            ELSE LET r == IF current_arg[2] # "-"
                          THEN ShortOptions(p, argv, i, 1, cfg)
                          ELSE LongOption(p, argv, i, cfg)
                 IN IF r.status = "next"
                    THEN ParseOptionsScanAll(p, argv, r.i + 1, r.cfg)
                    ELSE r

RECURSIVE ParseOptionsFrom(_, _, _, _)
ParseOptionsFrom(p, argv, i, cfg) ==
    IF i >= Len(argv) THEN [status |-> "ok", cfg |-> cfg, i |-> i]
    ELSE LET current_arg == argv[i + 1]
         IN IF ~IsOption(current_arg) THEN [status |-> "ok", cfg |-> cfg, i |-> i]
            ELSE LET r == IF current_arg[2] # "-"
                          THEN ShortOptions(p, argv, i, 1, cfg)
                          ELSE LongOption(p, argv, i, cfg)
                 IN IF r.status = "next"
                    THEN ParseOptionsFrom(p, argv, r.i + 1, r.cfg)
                    ELSE r

---------------------------------------------------------------------------
(* findDoc, and main up to parseDoc *)

dotMd == <<".","m","d">>
readmeMd == <<"R","E","A","D","M","E",".","m","d">>

\* os.Stat(pattern) followed by info.Mode().IsRegular(): fs.files are the
\* paths of regular files (and of links to them), fs.dirs those of directories
IsRegular(files, pattern) == pattern \in files

\* a locator that tries README.md first
PatternsReadmeFirst(currentDir, program) ==
    << Join(currentDir, readmeMd),
       Join(currentDir, program \o dotMd),
       Join(currentDir, <<".">> \o program \o dotMd) >>

\* the three names of one directory, in the order they are tried
Patterns(currentDir, program) ==
    << Join(currentDir, program \o dotMd),
       Join(currentDir, <<".">> \o program \o dotMd),
       Join(currentDir, readmeMd) >>

\* the loop of findDoc from currentDir up to the root
RECURSIVE FindDocFrom(_, _, _)
FindDocFrom(files, program, currentDir) ==
    LET patterns == Patterns(currentDir, program)
        hits == {k \in DOMAIN patterns : IsRegular(files, patterns[k])}
    IN IF hits # {}
       THEN [path |-> patterns[CHOOSE k \in hits : \A j \in hits : k <= j],
             err |-> FALSE]
       ELSE IF Dir(currentDir) = currentDir
       THEN [path |-> <<>>, err |-> TRUE]
       ELSE FindDocFrom(files, program, Dir(currentDir))

findDoc(program) == FindDocFrom(fs.files, program, fs.cwd)

\* setenv(name, value, 0): a variable that is set keeps its value
SetenvIfUnset(env, name, v) ==
    IF \E i \in DOMAIN env : env[i][1] = name THEN env
    ELSE Append(env, <<name, v>>)

\* os.Setenv / setenv(name, value, 1)
Setenv(env, name, v) ==
    IF \E i \in DOMAIN env : env[i][1] = name
    THEN [i \in DOMAIN env |-> IF env[i][1] = name THEN <<name, v>> ELSE env[i]]
    ELSE Append(env, <<name, v>>)

MD_EXE == <<"M","D","_","E","X","E">>
MD_FILE == <<"M","D","_","F","I","L","E">>

\* what a refused option leaves on standard error: error_msg in main.c;
\* main.go builds an error with fmt.Errorf and drops it
UsageErrs(p) == IF p = "c" THEN <<"usage">> ELSE <<>>

\* main: the option loop, and the help
ParseOptions ==
    /\ pc = "args"
    /\ LET r == ParseOptionsFrom(prog, osArgs, 1, ZeroConfig)
       IN CASE r.status = "panic" ->
                 /\ pc' = "argpanic"
                 /\ UNCHANGED <<all, config, arg_index, exitCode, out, errs>>
            [] r.status = "exit1" ->
                 /\ pc' = "exited"
                 /\ exitCode' = 1
                 /\ errs' = errs \o UsageErrs(prog)
                 /\ UNCHANGED <<all, config, arg_index, out>>
            [] OTHER ->
                 /\ config' = r.cfg
                 /\ all' = r.cfg.all
                 /\ arg_index' = r.i
                 /\ IF r.cfg.help
                    THEN /\ out' = Append(out, [kind |-> "help", body |-> <<>>])
                         /\ exitCode' = 0
                         /\ pc' = "exited"
                    ELSE /\ pc' = "locate"
                         /\ UNCHANGED <<out, exitCode>>
                 /\ UNCHANGED errs
    /\ UNCHANGED <<parseVars, environ, execVars, prog, osArgs, fs, located>>

\* main without a usable document: main.c reports it and returns 1; main.go
\* drops both errors and returns from main
NoDocument(p) ==
    IF p = "c" THEN [errs |-> <<"No markdown file found">>, exitCode |-> 1]
    ELSE [errs |-> <<>>, exitCode |-> 0]

\* main: the document is config.filePath, or else what findDoc finds; it is
\* read, MD_EXE and MD_FILE are set
LocateDoc ==
    /\ pc = "locate"
    /\ LET search == config.filePath = <<>>
           r == findDoc(Base(osArgs[1]))
           filePath == IF ~search THEN config.filePath
                       ELSE IF r.err THEN <<>> ELSE r.path
       IN /\ located' = IF search THEN located + 1 ELSE located
          /\ config' = [config EXCEPT !.filePath = filePath]
          /\ IF filePath = <<>> \/ ~IsRegular(fs.files, filePath)
             THEN /\ pc' = "exited"
                  /\ exitCode' = NoDocument(prog).exitCode
                  /\ errs' = errs \o NoDocument(prog).errs
                  /\ UNCHANGED environ
             ELSE /\ pc' = "parse"
                  /\ environ' = Setenv(Setenv(environ, MD_EXE, osArgs[1]),
                                       MD_FILE, filePath)
                  /\ UNCHANGED <<exitCode, errs>>
    /\ UNCHANGED <<parseVars, all, execVars, prog, osArgs, arg_index, fs, out>>

---------------------------------------------------------------------------
(* findNode *)

\* the nil *MD_NODE, as a node no heading has
NilNode == MD_NODE(0, 0, <<>>)

\* for _, node := range nodes: the first node, a node before its children,
\* whose heading text equals heading ignoring case; a copy of it is returned
\* a search that compares the heading texts byte by byte
RECURSIVE FindInExact(_, _)
FindInExact(nodes, heading) ==
    IF nodes = <<>> THEN NilNode
    ELSE LET node == Head(nodes)
         IN IF node.Text = heading THEN node
            ELSE LET foundNode == IF node.Children.len > 0
                                  THEN FindInExact(Elems(arrays, node.Children), heading)
                                  ELSE NilNode
                 IN IF foundNode # NilNode THEN foundNode
                    ELSE FindInExact(Tail(nodes), heading)

RECURSIVE FindIn(_, _)
FindIn(nodes, heading) ==
    IF nodes = <<>> THEN NilNode
    ELSE LET node == Head(nodes)
         IN IF EqualFold(node.Text, heading) THEN node
            ELSE LET foundNode == IF node.Children.len > 0
                                  THEN FindIn(Elems(arrays, node.Children), heading)
                                  ELSE NilNode
                 IN IF foundNode # NilNode THEN foundNode
                    ELSE FindIn(Tail(nodes), heading)

findNode(nodes, heading) == FindIn(Elems(arrays, nodes), heading)

\* main.c: node_found->next = NULL; node_found->child = NULL, on the node of
\* heading hid among the elements k.. of slice h: the list of its siblings
\* ends with it and it has no children
RECURSIVE CutFrom(_, _, _, _)
CutFrom(arrs, h, k, hid) ==
    IF k > h.len THEN [hdr |-> h, arrays |-> arrs]
    ELSE LET node == arrs[h.arr].elems[k]
         IN IF node.hid = hid
            THEN [hdr |-> [h EXCEPT !.len = k],
                  arrays |-> [arrs EXCEPT ![h.arr].elems[k].Children = nilSlice]]
            ELSE LET sub == CutFrom(arrs, node.Children, 1, hid)
                 IN CutFrom([sub.arrays EXCEPT ![h.arr].elems[k].Children = sub.hdr],
                            h, k + 1, hid)

\* what main does with a heading no node has: main.go reads
\* nodeFound.Heading before it compares nodeFound with nil; main.c reports
\* the heading and returns 1
HeadingNotFound(p) ==
    IF p = "c"
    THEN [pc |-> "exited", exitCode |-> 1, errs |-> <<"Cannot find heading">>]
    ELSE [pc |-> "nilpanic", exitCode |-> -1, errs |-> <<>>]

\* main: heading := os.Args[arg_index]; sub_args := os.Args[arg_index+1:];
\* nodeFound := findNode(mdNodes, heading), and the branch on nodeFound and
\* on config.markdown || config.code
Lookup(heading, sub_args) ==
    /\ pc = "parsed"
    /\ args' = sub_args
    /\ blk' = 1
    /\ LET node == findNode(commands, heading)
       IN IF node = NilNode
          THEN /\ found' = node
               /\ pc' = HeadingNotFound(prog).pc
               /\ exitCode' = HeadingNotFound(prog).exitCode
               /\ errs' = errs \o HeadingNotFound(prog).errs
               /\ UNCHANGED <<arrays, commands>>
          ELSE /\ pc' = IF config.markdown \/ config.code THEN "print" ELSE "exec"
               /\ UNCHANGED <<exitCode, errs>>
               /\ IF prog = "c"
                  THEN LET cut == CutFrom(arrays, commands, 1, node.hid)
                       IN /\ arrays' = cut.arrays
                          /\ commands' = cut.hdr
                          /\ found' = [node EXCEPT !.Children = nilSlice]
                  ELSE /\ found' = node
                       /\ UNCHANGED <<arrays, commands>>
    /\ UNCHANGED <<doc, maps, stack, all, environ, runs, result, prog, osArgs,
                   arg_index, config, fs, located, out>>

\* main: the heading is the first argument that is no option, the arguments
\* after it are sub_args
LookupHeading ==
    /\ arg_index < Len(osArgs)
    /\ Lookup(osArgs[arg_index + 1], SubSeq(osArgs, arg_index + 2, Len(osArgs)))

\* the headings md_node_to_markdown(node) prints: the node's, then those of
\* its children, then those of the nodes after it
RECURSIVE md_node_to_markdown(_)
md_node_to_markdown(nodes) ==
    IF nodes = <<>> THEN <<>>
    ELSE <<Head(nodes).hid>>
            \o md_node_to_markdown(Elems(arrays, Head(nodes).Children))
            \o md_node_to_markdown(Tail(nodes))

\* what --markdown prints of the node found: main.c prints
\* md_node_to_markdown(node_found); in main.go the branch is empty
PrintMarkdown(p, node) ==
    IF p = "c"
    THEN << [kind |-> "markdown", body |-> md_node_to_markdown(<<node>>)] >>
    ELSE <<>>

\* what --code prints: the body of each code block of the node, in order
PrintCode(node) ==
    [k \in DOMAIN node.CodeBlocks |->
        [kind |-> "code", body |-> node.CodeBlocks[k].Literal]]

\* main: config.markdown || config.code
PrintNode ==
    /\ pc = "print"
    /\ out' = out
                \o (IF config.markdown THEN PrintMarkdown(prog, found) ELSE <<>>)
                \o (IF config.code THEN PrintCode(found) ELSE <<>>)
    /\ exitCode' = 0
    /\ pc' = "exited"
    /\ UNCHANGED <<parseVars, all, environ, execVars, prog, osArgs, arg_index,
                   config, fs, located, errs>>

---------------------------------------------------------------------------
(* showHints *)

\* if len(child.CodeBlocks) > 0 || len(child.Children) > 0
Hinted(child) == Len(child.CodeBlocks) > 0 \/ child.Children.len > 0

\* len([]rune(line)) of the line treeprint writes for a branch at depth level:
\* four runes of indentation for each level above it, the edge and a space,
\* then the value
BranchLineLen(level, heading) == (level + 1) * 4 + Len(heading)

\* treeView: the rune lengths of the lines of the branches added for the
\* children k.. of cmdNode, a branch before the branches below it
RECURSIVE treeView(_, _, _)
treeView(cmdNode, k, level) ==
    IF k > cmdNode.Children.len THEN <<>>
    ELSE LET child == Elems(arrays, cmdNode.Children)[k]
         IN (IF Hinted(child)
             THEN <<BranchLineLen(level, child.Text)>> \o treeView(child, 1, level + 1)
             ELSE <<>>)
            \o treeView(cmdNode, k + 1, level)

\* strings.Split(tree.String(), "\n"): the line of the root value ".", the
\* lines of the branches, and the empty string after the last newline
TreeLines(cmdNode) == <<1>> \o treeView(cmdNode, 1, 0) \o <<0>>

\* if runeLength > maxLineRuneLen { maxLineRuneLen = runeLength }
RECURSIVE MaxLine(_, _)
MaxLine(lines, maxLineRuneLen) ==
    IF lines = <<>> THEN maxLineRuneLen
    ELSE MaxLine(Tail(lines),
                 IF Head(lines) > maxLineRuneLen THEN Head(lines) ELSE maxLineRuneLen)

\* strings.Split(discription, "\n") gives more than one line: the description
\* has a line break, or verbose added the env entries and the code blocks
ManyLines(child, verbose) ==
    \/ \E i \in DOMAIN child.Description : child.Description[i] = "\n"
    \/ /\ verbose
       /\ LET entries == IF child.Env = 0 THEN 0
                         ELSE Cardinality(DOMAIN maps[child.Env])
          IN \/ Len(child.CodeBlocks) > 0
             \/ entries >= 2
             \/ entries >= 1 /\ child.Description # <<>>

\* treeViewWithDescription: the counts given to strings.Repeat for the children
\* k.. of cmdNode, in the order of the calls
RECURSIVE treeViewWithDescription(_, _, _, _, _)
treeViewWithDescription(cmdNode, k, level, maxLineRuneLen, verbose) ==
    IF k > cmdNode.Children.len THEN <<>>
    ELSE LET child == Elems(arrays, cmdNode.Children)[k]
         IN (IF Hinted(child)
             THEN <<maxLineRuneLen - (level + 1) * 4 - Len(child.Text)>>
                    \o (IF ManyLines(child, verbose)
                        THEN <<maxLineRuneLen - (level + 1) * 4>> ELSE <<>>)
                    \o treeViewWithDescription(child, 1, level + 1,
                                               maxLineRuneLen, verbose)
             ELSE <<>>)
            \o treeViewWithDescription(cmdNode, k + 1, level, maxLineRuneLen, verbose)

\* a renderer that prints a root before it measures it
RECURSIVE showHintsMeasureAfter(_, _, _)
showHintsMeasureAfter(cmdNodes, maxLineRuneLen, verbose) ==
    IF cmdNodes = <<>> THEN <<>>
    ELSE LET cmdNode == Head(cmdNodes)
             measured == MaxLine(TreeLines(cmdNode), maxLineRuneLen)
         IN treeViewWithDescription(cmdNode, 1, 0, maxLineRuneLen, verbose)
              \o showHintsMeasureAfter(Tail(cmdNodes), measured, verbose)

\* showHints, the loop over the roots: the counts given to strings.Repeat, the
\* maximum line length growing root by root
RECURSIVE showHints(_, _, _)
showHints(cmdNodes, maxLineRuneLen, verbose) ==
    IF cmdNodes = <<>> THEN <<>>
    ELSE LET cmdNode == Head(cmdNodes)
             measured == MaxLine(TreeLines(cmdNode), maxLineRuneLen)
         IN treeViewWithDescription(cmdNode, 1, 0, measured, verbose)
              \o showHints(Tail(cmdNodes), measured, verbose)

\* main without a heading: the hints; strings.Repeat panics on a negative
\* count.  show_hint of main.c is not rendered here.
ShowHints ==
    /\ pc = "parsed"
    /\ arg_index >= Len(osArgs)
    /\ LET counts == IF prog = "go"
                     THEN showHints(Elems(arrays, commands), 0, config.verbose)
                     ELSE <<>>
       IN IF \E k \in DOMAIN counts : counts[k] < 0
          THEN /\ pc' = "hintpanic"
               /\ UNCHANGED <<out, exitCode>>
          ELSE /\ out' = Append(out, [kind |-> "hints", body |-> counts])
               /\ exitCode' = 0
               /\ pc' = "exited"
    /\ UNCHANGED <<parseVars, all, environ, execVars, prog, osArgs, arg_index,
                   config, fs, located, errs>>

---------------------------------------------------------------------------
(* executeNode *)

\* a node's Env; ranging over a nil map visits nothing
EnvOf(node) == IF node.Env = 0 THEN <<>> ELSE maps[node.Env]

\* a merge without the !exists test: the farthest ancestor wins
MergeParentOverwrite(envMap, parentEnv) == parentEnv @@ envMap

\* if _, exists := envMap[key]; !exists { envMap[key] = value }
MergeParent(envMap, parentEnv) == envMap @@ parentEnv

\* for parent := cmdNode.Parent; parent != nil; parent = parent.Parent
RECURSIVE AncestorEnv(_, _)
AncestorEnv(parent, envMap) ==
    IF parent = nilPtr THEN envMap
    ELSE AncestorEnv(Deref(arrays, parent).Parent,
                     MergeParent(envMap, EnvOf(Deref(arrays, parent))))

\* for key, value := range cmdNode.Env { envMap[key] = value }
MergedEnv(cmdNode) == EnvOf(cmdNode) @@ AncestorEnv(cmdNode.Parent, <<>>)

\* the "key=value" strings of a map, as pairs, in the order of one iteration
RECURSIVE MapEntries(_)
MapEntries(m) ==
    IF DOMAIN m = {} THEN <<>>
    ELSE LET k == CHOOSE x \in DOMAIN m : TRUE
         IN << <<k, m[k]>> >> \o MapEntries([x \in DOMAIN m \ {k} |-> m[x]])

\* the entries of the tree before os.Environ(): the process environment wins
CmdEnvFirst(env, envMap) == MapEntries(envMap) \o env

\* cmdEnv = append(os.Environ(), cmdEnv...)
CmdEnv(env, envMap) == env \o MapEntries(envMap)

\* prefixArgs[i] = strings.Replace(arg, "$CODE", string(codeBlock.Literal), 1);
\* cmdArgs := append(prefixArgs, args...)
CmdArgs(cfg, literal, sub_args) ==
    [i \in DOMAIN cfg.prefixArgs |-> ReplaceFirst(cfg.prefixArgs[i], CODE, literal)]
        \o sub_args

\* cmd.Start() in place of cmd.Run(): the loop goes on while the child runs
PcAfterStartNoWait == "exec"

\* cmd.Run() starts the child and waits for it
PcAfterStart == "wait"

\* an executor that ignores the exit status
RunNeverFailed(code) == FALSE

\* if err := cmd.Run(); err != nil: Run reports a non-zero exit status
RunFailed(code) == code # 0

Running == {i \in DOMAIN runs : runs[i].status = "running"}

\* one turn of the range loop up to cmd.Run(): the dispatch lookup, the
\* arguments, the environment, and the start of the child, which can fail
ExecBlock(started) ==
    /\ pc = "exec"
    /\ blk <= Len(found.CodeBlocks)
    /\ LET codeBlock == found.CodeBlocks[blk]
           info      == codeBlock.Info
       IN IF info \notin DOMAIN languageConfigs
          THEN /\ result' = "unsupported"
               /\ pc' = "done"
               /\ UNCHANGED runs
          ELSE LET cfg    == languageConfigs[info]
                   envMap == MergedEnv(found)
                   cmd    == [blk    |-> blk,
                              Path   |-> cfg.cmdName,
                              Args   |-> CmdArgs(cfg, codeBlock.Literal, args),
                              envMap |-> envMap,
                              Env    |-> CmdEnv(environ, envMap),
                              status |-> IF started THEN "running" ELSE "spawnerr",
                              code   |-> 0]
               IN /\ runs' = Append(runs, cmd)
                  /\ IF started
                     THEN pc' = PcAfterStart /\ UNCHANGED result
                     ELSE pc' = "done" /\ result' = "execerr"
    /\ UNCHANGED <<parseVars, all, environ, found, args, blk, mainVars>>

\* the child terminates and cmd.Run() returns
ExecExit(code) ==
    /\ pc = "wait"
    /\ \E i \in Running :
         runs' = [runs EXCEPT ![i].status = "exited", ![i].code = code]
    /\ IF RunFailed(code)
       THEN /\ result' = "execerr"
            /\ pc' = "done"
            /\ UNCHANGED blk
       ELSE /\ blk' = blk + 1
            /\ pc' = "exec"
            /\ UNCHANGED result
    /\ UNCHANGED <<parseVars, all, environ, found, args, mainVars>>

\* return nil
ExecReturn ==
    /\ pc = "exec"
    /\ blk > Len(found.CodeBlocks)
    /\ result' = "nil"
    /\ pc' = "done"
    /\ UNCHANGED <<parseVars, all, environ, found, args, blk, runs, mainVars>>

\* what execute_node returns to main.c: 0, the exit status of the child that
\* failed, 1 for a child that did not start or a language without an entry
execute_node ==
    CASE result = "nil" -> 0
      [] result = "unsupported" -> 1
      [] OTHER -> IF runs[Len(runs)].status = "exited"
                  THEN runs[Len(runs)].code ELSE 1

\* the exit status after executeNode: main.c returns what execute_node
\* returned; main.go drops the error and returns from main
StatusAfterRun(p) == IF p = "c" THEN execute_node ELSE 0

\* main after executeNode
MainReturn ==
    /\ pc = "done"
    /\ exitCode' = StatusAfterRun(prog)
    /\ pc' = "exited"
    /\ UNCHANGED <<parseVars, all, environ, execVars, prog, osArgs, arg_index,
                   config, fs, located, out, errs>>

\* The environment a child sees of cmd.Env: of duplicate keys the last counts
EffectiveEnv(env) ==
    [k \in {env[i][1] : i \in DOMAIN env} |->
        env[CHOOSE i \in DOMAIN env :
                /\ env[i][1] = k
                /\ \A j \in DOMAIN env : env[j][1] = k => j <= i][2]]

---------------------------------------------------------------------------
(* The documents, arguments and exit codes explored *)

MaxDocTree == 5
MaxDocEnv == 6
MaxDocTable == 4
MaxDocExec == 4
MaxExit == 1

Levels == 1..MaxLevel
ExitCodes == 0..MaxExit

sh == <<"s","h">>
SH == <<"S","H">>
python == <<"p","y","t","h","o","n">>
cobol == <<"c","o","b","o","l">>
echoHi == <<"e","c","h","o"," ","h","i","\n">>
exit1 == <<"e","x","i","t"," ","1","\n">>
foo == <<"f","o","o">>
dashV == <<"-","v">>

\* the heading text of the documents whose headings are told apart by level
LevelText(level) == << LowerChars[level] >>

Str1(c) == <<c>>
key == <<"k","e","y">>
value == <<"v","a","l","u","e">>

Row(a, b) == <<TextCell(a), TextCell(b)>>

\* | key | value |  with the row  | A | 1 |
KeyValueTable == [Header |-> Row(key, value),
                  Rows   |-> << Row(Str1("A"), Str1("1")) >>]
\* | Key | Value |  with the rows  | A | 2 |  and  | B | 3 |
KeyValueTable2 == [Header |-> Row(<<"K","e","y">>, <<"V","a","l","u","e">>),
                   Rows   |-> << Row(Str1("A"), Str1("2")),
                                 Row(Str1("B"), Str1("3")) >>]
\* | value | key |  with the row  | 1 | A |
SwappedTable == [Header |-> Row(value, key),
                 Rows   |-> << Row(Str1("1"), Str1("A")) >>]
\* | Name | Age | City |  with the row  | John | 30 | NY |
ThreeColumnTable ==
    [Header |-> <<TextCell(<<"N","a","m","e">>), TextCell(<<"A","g","e">>),
                  TextCell(<<"C","i","t","y">>)>>,
     Rows   |-> << <<TextCell(<<"J","o","h","n">>), TextCell(<<"3","0">>),
                     TextCell(<<"N","Y">>)>> >>]
\* | key | value |  with the row  | A |   |
EmptyValueTable == [Header |-> Row(key, value),
                    Rows   |-> << <<TextCell(Str1("A")), EmptyCell>> >>]

ProcessEnv == << <<Str1("A"), Str1("0")>>,
                 <<<<"H","O","M","E">>, <<"/">>>>,
                 <<<<"M","D","_","E","X","E">>, <<"c","r">>>>,
                 <<<<"M","D","_","F","I","L","E">>, <<"c","r",".","m","d">>>> >>

cr == <<"c","r">>
crMd == <<"c","r",".","m","d">>

\* main.go at the call of parseDoc: the heading and the arguments are drawn
\* at the lookup
Init ==
    /\ doc = <<>>
    /\ arrays = <<>>
    /\ maps = <<>>
    /\ commands = nilSlice
    /\ stack = <<>>
    /\ all \in BOOLEAN
    /\ environ = ProcessEnv
    /\ found = NilNode
    /\ args = <<>>
    /\ blk = 0
    /\ runs = <<>>
    /\ result = "none"
    /\ pc = "parse"
    /\ prog = "go"
    /\ osArgs = <<cr>>
    /\ arg_index = 1
    /\ config = [ZeroConfig EXCEPT !.all = all, !.filePath = crMd]
    /\ fs = [cwd |-> <<"/">>, files |-> {crMd}, dirs |-> {}]
    /\ located = 0
    /\ exitCode = -1
    /\ out = <<>>
    /\ errs = <<>>

\* the tree builder on headings of every level with content of every kind
NextTree ==
    \/ \E level \in Levels :
         Len(doc) < MaxDocTree /\ ParseHeading(level, <<"a">>)
    \/ Len(doc) < MaxDocTree /\ ParseParagraph(TextCell(<<"d">>))
    \/ \E info \in {sh, cobol} :
         Len(doc) < MaxDocTree /\ ParseCodeBlock(info, echoHi)
    \/ \E table \in {KeyValueTable, EmptyValueTable} :
         Len(doc) < MaxDocTree /\ ParseTable(table)
    \/ ParseReturn

SpecTree == Init /\ [][NextTree]_vars

\* tables under nested headings, and the execution of a heading
NextEnv ==
    \/ \E level \in Levels :
         Len(doc) < MaxDocEnv /\ ParseHeading(level, LevelText(level))
    \/ Len(doc) < MaxDocEnv /\ ParseCodeBlock(sh, echoHi)
    \/ \E table \in {KeyValueTable, KeyValueTable2} :
         Len(doc) < MaxDocEnv /\ ParseTable(table)
    \/ ParseReturn
    \/ \E level \in Levels : Lookup(LevelText(level), <<>>)
    \/ ExecBlock(TRUE)
    \/ ExecExit(0)
    \/ ExecReturn

InitEnv == Init /\ all = FALSE

SpecEnv == InitEnv /\ [][NextEnv]_vars

\* tables of every shape under a heading
NextTable ==
    \/ \E level \in 1..2 :
         Len(doc) < MaxDocTable /\ ParseHeading(level, LevelText(level))
    \/ Len(doc) < MaxDocTable /\ ParseCodeBlock(sh, echoHi)
    \/ \E table \in {KeyValueTable, KeyValueTable2, SwappedTable,
                     ThreeColumnTable, EmptyValueTable} :
         Len(doc) < MaxDocTable /\ ParseTable(table)
    \/ ParseReturn
    \/ \E level \in 1..2 : Lookup(LevelText(level), <<>>)
    \/ ExecBlock(TRUE)
    \/ ExecExit(0)
    \/ ExecReturn

SpecTable == Init /\ [][NextTable]_vars

\* code blocks of known and unknown languages, and every outcome of a run
NextExec ==
    \/ \E level \in 1..2 :
         Len(doc) < MaxDocExec /\ ParseHeading(level, LevelText(level))
    \/ \E b \in {<<sh, echoHi>>, <<sh, exit1>>, <<SH, echoHi>>,
                  <<python, echoHi>>, <<cobol, echoHi>>} :
         Len(doc) < MaxDocExec /\ ParseCodeBlock(b[1], b[2])
    \/ ParseReturn
    \/ \E level \in 1..2, sub_args \in {<<>>, <<foo>>, <<foo, dashV>>} :
            Lookup(LevelText(level), sub_args)
    \/ \E started \in BOOLEAN : ExecBlock(started)
    \/ \E code \in ExitCodes : ExecExit(code)
    \/ ExecReturn

SpecExec == Init /\ [][NextExec]_vars

---------------------------------------------------------------------------
(* main from its first line: command lines and file systems *)

MaxDocRun == 3
MaxDocFind == 4
MaxDocMain == 2
MaxDepth == 3

dotCr == <<".","/","c","r">>
xMd == <<"x",".","m","d">>
dashF == <<"-","f">>
dashFxMd == dashF \o xMd
dashFileEqxMd == dashFileEq \o xMd
dashHelpArg == dashHelp

\* the environment the tool is started in; MD_FILE is left from an outer run
StartEnv == << <<Str1("A"), Str1("0")>>,
               <<<<"H","O","M","E">>, <<"/">>>>,
               <<MD_FILE, <<"o","l","d">>>> >>

\* the working directories: the root, and the directories below it
RECURSIVE Below(_)
Below(depth) == IF depth = 0 THEN <<"/">>
                ELSE Join(Below(depth - 1), Str1("d"))

\* a directory, then its parent, up to the root
RECURSIVE Ancestors(_)
Ancestors(dir) == IF Dir(dir) = dir THEN <<dir>> ELSE <<dir>> \o Ancestors(Dir(dir))

\* {program}.md, .{program}.md and README.md of the program cr
CandidateNames == << crMd, <<".">> \o crMd, readmeMd >>

\* what a directory holds of the three names: which are regular files and
\* which are directories
Shapes ==
    { [files |-> {}, dirs |-> {}],
      [files |-> {3}, dirs |-> {}],
      [files |-> {1, 3}, dirs |-> {}],
      [files |-> {2, 3}, dirs |-> {}],
      [files |-> {3}, dirs |-> {1}] }

\* the file system of a working directory whose k-th ancestor has shape[k]
MakeFs(cwd, shape) ==
    LET up == Ancestors(cwd)
        at(k, set) == {Join(up[k], CandidateNames[n]) : n \in set}
    IN [cwd   |-> cwd,
        files |-> {xMd} \cup UNION {at(k, shape[k].files) : k \in DOMAIN up},
        dirs  |-> UNION {at(k, shape[k].dirs) : k \in DOMAIN up}]

FileSystems ==
    UNION { {MakeFs(Below(depth), shape) : shape \in [1..(depth + 1) -> Shapes]}
            : depth \in 0..MaxDepth }

\* one working directory with a document of the program's name
HomeFs == MakeFs(Below(1), <<[files |-> {1}, dirs |-> {}],
                             [files |-> {}, dirs |-> {}]>>)

\* main at its first line
InitMain(programs, commandLines, fileSystems) ==
    /\ doc = <<>>
    /\ arrays = <<>>
    /\ maps = <<>>
    /\ commands = nilSlice
    /\ stack = <<>>
    /\ all = FALSE
    /\ environ = StartEnv
    /\ found = NilNode
    /\ args = <<>>
    /\ blk = 0
    /\ runs = <<>>
    /\ result = "none"
    /\ pc = "args"
    /\ prog \in programs
    /\ osArgs \in commandLines
    /\ arg_index = 1
    /\ config = ZeroConfig
    /\ fs \in fileSystems
    /\ located = 0
    /\ exitCode = -1
    /\ out = <<>>
    /\ errs = <<>>

Programs == {"go", "c"}

\* the steps of main around parseDoc and executeNode
MainSteps ==
    \/ ParseOptions
    \/ LocateDoc
    \/ ParseReturn
    \/ LookupHeading
    \/ ShowHints
    \/ MainReturn

\* the document locator on every file system, then a short document
NextLocate ==
    \/ MainSteps
    \/ PrintNode
    \/ Len(doc) < MaxDocMain /\ ParseHeading(1, Str1("a"))
    \/ Len(doc) < MaxDocMain /\ ParseCodeBlock(sh, echoHi)
    \/ ExecBlock(TRUE)
    \/ ExecExit(0)
    \/ ExecReturn

InitLocate ==
    InitMain(Programs,
             {<<dotCr>>, <<dotCr, Str1("a")>>, <<dotCr, dashCode, Str1("a")>>},
             FileSystems)

SpecLocate == InitLocate /\ [][NextLocate]_vars

\* heading texts and arguments of the command lines
hA == Str1("a")
hUpperA == Str1("A")
hB == Str1("b")
hZ == Str1("z")
dashM == <<"-","m">>
dashC == <<"-","c">>
dashMC == <<"-","m","c">>
dashA == <<"-","a">>
dashZ == <<"-","z">>
dashVF == <<"-","v","f">>
dashBogus == <<"-","-","b","o","g","u","s">>

\* | key | value |  with the row  | MD_FILE | t |
MdFileTable == [Header |-> Row(key, value),
                Rows   |-> << Row(MD_FILE, Str1("t")) >>]

\* a heading run, printed or missing, with and without arguments
RunCommandLines ==
    { <<dotCr, h>> : h \in {hA, hB, hZ} }
        \cup { <<dotCr, hA, foo>>, <<dotCr, dashA, hA>>, <<dotCr, dashA, hB>>,
               <<dotCr, dashM, hA>>, <<dotCr, dashC, hA>>, <<dotCr, dashMC, hA>>,
               <<dotCr, dashC, hZ>>, <<dotCr>> }

\* the run of a heading: every outcome of its blocks, and the printing
NextRun ==
    \/ MainSteps
    \/ PrintNode
    \/ \E level \in 1..2 :
         Len(doc) < MaxDocRun /\ ParseHeading(level, LevelText(level))
    \/ \E b \in {<<sh, echoHi>>, <<sh, exit1>>, <<cobol, echoHi>>} :
         Len(doc) < MaxDocRun /\ ParseCodeBlock(b[1], b[2])
    \/ Len(doc) < MaxDocRun /\ ParseTable(MdFileTable)
    \/ \E started \in BOOLEAN : ExecBlock(started)
    \/ \E code \in {0, MaxExit, MaxExit + 2} : ExecExit(code)
    \/ ExecReturn

InitRun == InitMain(Programs, RunCommandLines, {HomeFs})

SpecRun == InitRun /\ [][NextRun]_vars

\* the lookup of a heading among headings of equal and different texts
NextFind ==
    \/ MainSteps
    \/ \E level \in 1..2, text \in {hA, hUpperA, hB} :
         Len(doc) < MaxDocFind /\ ParseHeading(level, text)
    \/ ExecReturn

InitFind ==
    InitMain(Programs,
             { <<dotCr, h>> : h \in {hA, hUpperA, hB, hZ} } \cup { <<dotCr>> },
             {HomeFs})

SpecFind == InitFind /\ [][NextFind]_vars

\* the options before the heading, and the arguments after it
FileForms ==
    { <<>>, <<dashF, xMd>>, <<dashFxMd>>, <<dashFile, xMd>>, <<dashFileEqxMd>>,
      <<dashVF, xMd>>, <<dashV>>, <<dashAll>>, <<dashC>>, <<dashMarkdown>> }

Trailing ==
    { <<>>, <<foo>>, <<dashV>>, <<dashHelp>>, <<foo, dashV>>, <<dashF, xMd>> }

OptionCommandLines ==
    { <<dotCr>> \o form \o <<hA>> \o rest : form \in FileForms, rest \in Trailing }
        \cup { <<dotCr>> \o form : form \in FileForms }
        \cup { <<dotCr, dashZ>>, <<dotCr, dashBogus>>, <<dotCr, dashF>>,
               <<dotCr, dashFile>>, <<dotCr, dashHelp>>, <<dotCr, dashF, dashV>> }

NextOptions ==
    \/ MainSteps
    \/ PrintNode
    \/ Len(doc) < MaxDocMain /\ ParseHeading(1, hA)
    \/ Len(doc) < MaxDocMain /\ ParseCodeBlock(sh, echoHi)
    \/ ExecBlock(TRUE)
    \/ ExecExit(0)
    \/ ExecReturn

InitOptions == InitMain(Programs, OptionCommandLines, {HomeFs})

SpecOptions == InitOptions /\ [][NextOptions]_vars


\* paragraphs with and without text, and code blocks kept and dropped, under
\* headings of two levels
MaxDocDesc == 4

textD == TextCell(<<"d">>)
textE == TextCell(<<"e">>)
\* a paragraph that is one code span: it has no ast.Text child
CodeSpanOnly == << [type |-> "Code", Literal |-> <<"x">>] >>

NextDesc ==
    \/ \E level \in 1..2 :
         Len(doc) < MaxDocDesc /\ ParseHeading(level, LevelText(level))
    \/ \E children \in {textD, textE, CodeSpanOnly} :
         Len(doc) < MaxDocDesc /\ ParseParagraph(children)
    \/ \E info \in {sh, cobol} :
         Len(doc) < MaxDocDesc /\ ParseCodeBlock(info, echoHi)
    \/ ParseReturn

SpecDesc == Init /\ [][NextDesc]_vars

\* content of every kind before the first heading and under headings, and the
\* execution of a heading
MaxDocTop == 4

NextTop ==
    \/ \E level \in 1..2 :
         Len(doc) < MaxDocTop /\ ParseHeading(level, LevelText(level))
    \/ \E children \in {textD, textE} :
         Len(doc) < MaxDocTop /\ ParseParagraph(children)
    \/ \E literal \in {echoHi, exit1} :
         Len(doc) < MaxDocTop /\ ParseCodeBlock(sh, literal)
    \/ \E table \in {KeyValueTable, KeyValueTable2} :
         Len(doc) < MaxDocTop /\ ParseTable(table)
    \/ ParseReturn
    \/ \E level \in 1..2 : Lookup(LevelText(level), <<>>)
    \/ ExecBlock(TRUE)
    \/ \E code \in ExitCodes : ExecExit(code)
    \/ ExecReturn

SpecTop == InitEnv /\ [][NextTop]_vars

\* headings of short and long texts on three levels, with the content that
\* makes them appear among the hints, and the hints
MaxDocHints == 6

longText == <<"l","o","n","g","e","r">>
\* a paragraph of two lines
twoLines == << [type |-> "Text", Literal |-> <<"d">>],
               [type |-> "Hardbreak", Literal |-> <<>>],
               [type |-> "Text", Literal |-> <<"e">>] >>

HintHeadings == { <<1, <<"a">>>>, <<2, <<"a">>>>, <<2, longText>>, <<3, <<"a">>>> }

NextHints ==
    \/ \E h \in HintHeadings :
         Len(doc) < MaxDocHints /\ ParseHeading(h[1], h[2])
    \/ Len(doc) < MaxDocHints /\ ParseParagraph(twoLines)
    \/ Len(doc) < MaxDocHints /\ ParseCodeBlock(sh, echoHi)
    \/ ParseReturn
    \/ ShowHints

InitHints ==
    /\ doc = <<>>
    /\ arrays = <<>>
    /\ maps = <<>>
    /\ commands = nilSlice
    /\ stack = <<>>
    /\ all = FALSE
    /\ environ = ProcessEnv
    /\ found = NilNode
    /\ args = <<>>
    /\ blk = 0
    /\ runs = <<>>
    /\ result = "none"
    /\ pc = "parse"
    /\ prog = "go"
    /\ osArgs = <<cr>>
    /\ arg_index = 1
    /\ \E verbose \in BOOLEAN :
          config = [ZeroConfig EXCEPT !.verbose = verbose, !.filePath = crMd]
    /\ fs = [cwd |-> <<"/">>, files |-> {crMd}, dirs |-> {}]
    /\ located = 0
    /\ exitCode = -1
    /\ out = <<>>
    /\ errs = <<>>

SpecHints == InitHints /\ [][NextHints]_vars

Next ==
    \/ NextTree \/ NextEnv \/ NextTable \/ NextExec
    \/ NextLocate \/ NextRun \/ NextFind \/ NextOptions
    \/ NextDesc \/ NextTop \/ NextHints

Spec == Init /\ [][Next]_vars

---------------------------------------------------------------------------
(* The document and the tree parseDoc returns, as the claims speak of them *)

HeadingIdx == {i \in DOMAIN doc : doc[i].type = "Heading"}

\* the nearest preceding heading of smaller level, 0 when there is none
NearestShallower(i) ==
    LET up == {j \in HeadingIdx : j < i /\ doc[j].Level < doc[i].Level}
    IN IF up = {} THEN 0 ELSE CHOOSE j \in up : \A k \in up : k <= j

\* the members of a set of numbers in ascending order
RECURSIVE Ascending(_)
Ascending(S) ==
    IF S = {} THEN <<>>
    ELSE LET m == CHOOSE x \in S : \A y \in S : x <= y
         IN <<m>> \o Ascending(S \ {m})

\* the headings (by place in the document) whose parent is heading p, in order
HeadingsUnder(p) == Ascending({i \in HeadingIdx : NearestShallower(i) = p})

\* the nodes of slice h are the headings under p, in document order, each with
\* the level of its heading, and so on below each of them
RECURSIVE Mirrors(_, _)
Mirrors(h, p) ==
    LET nodes == Elems(arrays, h)
    IN /\ [k \in DOMAIN nodes |-> nodes[k].hid] = HeadingsUnder(p)
       /\ \A k \in DOMAIN nodes :
            /\ nodes[k].Level = doc[nodes[k].hid].Level
            /\ Mirrors(nodes[k].Children, nodes[k].hid)

\* the nodes of the tree under slice h
RECURSIVE TreeNodes(_)
TreeNodes(h) ==
    LET nodes == Elems(arrays, h)
    IN UNION {{nodes[k]} \cup TreeNodes(nodes[k].Children) : k \in DOMAIN nodes}

\* the node of heading i in the tree
TreeNode(i) == CHOOSE n \in TreeNodes(commands) : n.hid = i

\* a heading, then its parent, and so on up to a root
RECURSIVE Chain(_)
Chain(i) == IF i = 0 THEN <<>> ELSE <<i>> \o Chain(NearestShallower(i))

\* the places of the content directly under heading i: after it, before the
\* next heading
SectionOf(i) ==
    {j \in DOMAIN doc : j > i /\ \A k \in (i + 1)..j : doc[k].type # "Heading"}

TablesUnder(i) == {j \in SectionOf(i) : doc[j].type = "Table"}

\* the code blocks under heading i, in document order
CodeUnder(i) ==
    LET places == Ascending({j \in SectionOf(i) : doc[j].type = "CodeBlock"})
    IN [k \in DOMAIN places |->
            [Info |-> doc[places[k]].Info, Literal |-> doc[places[k]].Literal]]

\* the env a node's tables define for heading i, and the value the chain of
\* heading i gives key k: that of the first heading of the chain defining it
EnvAt(i) == EnvOf(TreeNode(i))
ChainKeys(i) == UNION {DOMAIN EnvAt(Chain(i)[c]) : c \in DOMAIN Chain(i)}
NearestValue(i, k) ==
    LET defining == {c \in DOMAIN Chain(i) : k \in DOMAIN EnvAt(Chain(i)[c])}
        c == CHOOSE x \in defining : \A y \in defining : x <= y
    IN EnvAt(Chain(i)[c])[k]

---------------------------------------------------------------------------
(* C1 *)

\* C1: for every sequence of headings with levels in 1..6 and whatever
\* paragraphs, code blocks or tables appear between them, the tree builder
\* produces exactly one node per heading, children in document order, each node
\* under the nearest preceding heading of smaller level, a root when there is
\* none.  The builder does not produce a tree when it stops in a panic.
C1_OneNodePerHeading ==
    /\ pc # "panic"
    /\ Mirrors(commands, 0)
    /\ Cardinality(TreeNodes(commands)) = Cardinality(HeadingIdx)

\* The nesting of C1 alone: it holds at every step of the walk and of every
\* tree parseDoc returns.
ParseDocNesting ==
    /\ Mirrors(commands, 0)
    /\ Cardinality(TreeNodes(commands)) = Cardinality(HeadingIdx)

---------------------------------------------------------------------------
(* C2, C3 *)

\* C2: for every executed node and every key defined in the env of the node or
\* of one of its ancestors, the merged environment of the run maps the key to
\* the value defined closest to the node.
C2_NearestEnvWins ==
    \A r \in DOMAIN runs :
        \A k \in ChainKeys(found.hid) :
            /\ k \in DOMAIN runs[r].envMap
            /\ runs[r].envMap[k] = NearestValue(found.hid, k)

\* a run of a node with two ancestors that give one key different values, the
\* node itself giving it none
C2_Witness ==
    /\ runs # <<>>
    /\ Len(Chain(found.hid)) = 3
    /\ \E k \in DOMAIN EnvAt(Chain(found.hid)[2]) \cap DOMAIN EnvAt(Chain(found.hid)[3]) :
          /\ k \notin DOMAIN EnvAt(found.hid)
          /\ EnvAt(Chain(found.hid)[2])[k] # EnvAt(Chain(found.hid)[3])[k]

\* a run of a node that gives a key another value than its parent does
C2_WitnessOwn ==
    /\ runs # <<>>
    /\ Len(Chain(found.hid)) = 2
    /\ \E k \in DOMAIN EnvAt(found.hid) \cap DOMAIN EnvAt(Chain(found.hid)[2]) :
          EnvAt(found.hid)[k] # EnvAt(Chain(found.hid)[2])[k]

\* C3: the environment of each spawned subprocess is the process environment
\* overlaid by the merged env of the node and its ancestors: a key of both has
\* the value of the tree, a key of the process environment alone is passed
\* unchanged, a key of the tree alone is added.
C3_EnvOverlay ==
    \A r \in DOMAIN runs :
        LET child   == EffectiveEnv(runs[r].Env)
            process == EffectiveEnv(environ)
            tree    == ChainKeys(found.hid)
        IN /\ DOMAIN child = DOMAIN process \cup tree
           /\ \A k \in DOMAIN child :
                child[k] = IF k \in tree THEN NearestValue(found.hid, k)
                           ELSE process[k]

\* a run with a key of both (of different values), a key of the process alone
\* and a key of the tree alone
C3_Witness ==
    /\ runs # <<>>
    /\ \E k \in ChainKeys(found.hid) \cap DOMAIN EffectiveEnv(environ) :
          NearestValue(found.hid, k) # EffectiveEnv(environ)[k]
    /\ ChainKeys(found.hid) \ DOMAIN EffectiveEnv(environ) # {}
    /\ DOMAIN EffectiveEnv(environ) \ ChainKeys(found.hid) # {}

---------------------------------------------------------------------------
(* C4, C5 *)

\* C4: a two-column table under a heading whose header cells read key and
\* value, in either order and ignoring case, yields on the heading's node an
\* env of exactly one entry per data row, the header row being none; under
\* the header value, key the second cell of a row is the key.
C4_KeyValueTableEnv ==
    \A i \in HeadingIdx :
        \A j \in TablesUnder(i) :
            (/\ pc \notin {"parse", "panic"}
             /\ TablesUnder(i) = {j}
             /\ tryCreateKeyValueMap(doc[j]).isMap)
                => EnvAt(i) = tryCreateKeyValueMap(doc[j]).kvMap

\* C5: a table whose header is not two cells reading key and value adds no
\* entry to the env of any node.
C5_OtherTablesNoEnv ==
    \A i \in HeadingIdx :
        (/\ pc \notin {"parse", "panic"}
         /\ \A j \in TablesUnder(i) : ~tryCreateKeyValueMap(doc[j]).isMap)
            => DOMAIN EnvAt(i) = {}

---------------------------------------------------------------------------
(* C6, C7 *)

\* C6: without the all-languages flag a code block is appended to the node of
\* the current heading exactly when its language tag is a key of the dispatch
\* table; with the flag every code block under a heading is appended; the
\* retained blocks keep the order of the document.
C6_RetainedBlocks ==
    \A i \in HeadingIdx :
        LET keep(b) == all \/ b.Info \in DOMAIN languageConfigs
        IN TreeNode(i).CodeBlocks = SelectSeq(CodeUnder(i), keep)

\* without the flag, a heading with a block of an unknown language before a
\* block of a known one: only the second is in the node
C6_Witness ==
    /\ ~all
    /\ \E i \in HeadingIdx :
          /\ Len(CodeUnder(i)) = 2
          /\ CodeUnder(i)[1].Info \notin DOMAIN languageConfigs
          /\ TreeNode(i).CodeBlocks = << CodeUnder(i)[2] >>

\* with the flag, a block of an unknown language is in the node
C6_WitnessAll ==
    /\ all
    /\ \E i \in HeadingIdx :
          \E k \in DOMAIN TreeNode(i).CodeBlocks :
              TreeNode(i).CodeBlocks[k].Info \notin DOMAIN languageConfigs

\* C7: the lookup in the dispatch table ignores the case of the language tag,
\* when the tree is built and when a block is executed: a block tagged SH is
\* retained and dispatched as the same block tagged sh.
C7_CaseInsensitiveLookup ==
    /\ \A i \in HeadingIdx :
          LET keep(b) == all \/ ToLower(b.Info) \in DOMAIN languageConfigs
          IN TreeNode(i).CodeBlocks = SelectSeq(CodeUnder(i), keep)
    /\ \A r \in DOMAIN runs :
          runs[r].Path =
              languageConfigs[ToLower(found.CodeBlocks[runs[r].blk].Info)].cmdName
    /\ result = "unsupported" =>
          ToLower(found.CodeBlocks[blk].Info) \notin DOMAIN languageConfigs

---------------------------------------------------------------------------
(* C8 *)

\* the content of a code block: its raw body, the trailing newline trimmed
Content(literal) ==
    IF literal # <<>> /\ literal[Len(literal)] = "\n"
    THEN SubSeq(literal, 1, Len(literal) - 1)
    ELSE literal

\* the template with its placeholder replaced by text
Filled(template, text) ==
    [i \in DOMAIN template |-> IF template[i] = CODE THEN text ELSE template[i]]

\* C8: the spawned command of a block is the executable of its dispatch entry
\* with the template, its placeholder replaced by the block's content (the raw
\* body, the trailing newline trimmed), followed by the trailing arguments in
\* their order.
C8_SpawnedCommand ==
    \A r \in DOMAIN runs :
        LET b   == found.CodeBlocks[runs[r].blk]
            cfg == languageConfigs[b.Info]
        IN /\ runs[r].Path = cfg.cmdName
           /\ runs[r].Args = Filled(cfg.prefixArgs, Content(b.Literal)) \o args

\* What holds of the command: the placeholder is replaced by the literal of the
\* block as the parser gives it, the newline that ends it included.
SpawnedCommandLiteral ==
    \A r \in DOMAIN runs :
        LET b   == found.CodeBlocks[runs[r].blk]
            cfg == languageConfigs[b.Info]
        IN /\ runs[r].Path = cfg.cmdName
           /\ runs[r].Args = Filled(cfg.prefixArgs, b.Literal) \o args

---------------------------------------------------------------------------
(* C9, C10 *)

\* the run of a block failed: it could not be started or it exited non-zero
Failed(run) ==
    run.status = "spawnerr" \/ (run.status = "exited" /\ run.code # 0)

Succeeded(run) == run.status = "exited" /\ run.code = 0

\* C9: when block k is the first to fail (a non-zero exit, a failed spawn, a
\* language missing from the dispatch table), the blocks before it have each
\* been spawned exactly once, no block after it is spawned, and the executor
\* reports the failure.
C9_StopAtFirstFailure ==
    /\ \A r \in DOMAIN runs : runs[r].blk = r
    /\ \A r \in DOMAIN runs :
          Failed(runs[r]) =>
              /\ r = Len(runs)
              /\ \A q \in 1..(r - 1) : Succeeded(runs[q])
              /\ pc = "done" /\ result = "execerr"
    /\ result = "unsupported" =>
          /\ found.CodeBlocks[blk].Info \notin DOMAIN languageConfigs
          /\ Len(runs) = blk - 1
          /\ \A q \in DOMAIN runs : Succeeded(runs[q])
          /\ pc = "done"
    /\ (pc = "exec" /\ blk <= Len(found.CodeBlocks)
            /\ found.CodeBlocks[blk].Info \notin DOMAIN languageConfigs)
          => Len(runs) = blk - 1

\* the second of three blocks failed: the first ran once, the third never
C9_Witness ==
    /\ pc = "done"
    /\ result = "execerr"
    /\ Len(found.CodeBlocks) = 3
    /\ Len(runs) = 2
    /\ runs[2].status = "exited"

\* the second block is of a language missing from the table
C9_WitnessUnsupported ==
    /\ pc = "done"
    /\ result = "unsupported"
    /\ blk = 2

\* C10: the code blocks of the selected node are executed in document order
\* and one at a time: a block is spawned only after the subprocess of the
\* block before it has terminated, and never are two subprocesses running.
C10_OneAtATime ==
    /\ Cardinality(Running) <= 1
    /\ \A r \in DOMAIN runs :
          /\ runs[r].blk = r
          /\ r < Len(runs) => runs[r].status # "running"

\* the second block runs, the first has terminated
C10_Witness ==
    /\ Len(runs) = 2
    /\ runs[1].status = "exited"
    /\ runs[2].status = "running"

---------------------------------------------------------------------------
(* C11, C12, C13 *)

\* main has looked the heading up
LookedUp == blk > 0

\* the heading main looks up
Heading == osArgs[arg_index + 1]

\* C11: when a heading is executed, the exit code of the tool is 0 if every
\* block succeeded, the exit code of the failing subprocess if a block exited
\* non-zero, and 1 if the language of a block is unsupported.
C11_ExitCode ==
    (pc = "exited" /\ result # "none") =>
        CASE result = "nil" -> exitCode = 0
          [] result = "unsupported" -> exitCode = 1
          [] OTHER -> runs[Len(runs)].status = "exited"
                        => exitCode = runs[Len(runs)].code

\* the nodes of a tree, a node before its children, its children before the
\* nodes after it
RECURSIVE PreOrder(_)
PreOrder(nodes) ==
    IF nodes = <<>> THEN <<>>
    ELSE <<Head(nodes).hid>> \o PreOrder(Elems(arrays, Head(nodes).Children))
            \o PreOrder(Tail(nodes))

\* the places in a sequence of headings of those whose text is the heading
\* looked up, case ignored
Matches(order) ==
    {k \in DOMAIN order : ToLower(doc[order[k]].Text) = ToLower(Heading)}

\* C12: the lookup of a heading returns the first node, in pre-order
\* depth-first document order, whose heading text equals the requested string
\* ignoring case; of several matches the earliest; not-found when none matches.
\* The pre-order of the tree is read when parseDoc has returned it, the result
\* when main has looked the heading up.
C12_FirstMatchPreOrder ==
    /\ pc = "parsed" => PreOrder(Elems(arrays, commands)) = Ascending(HeadingIdx)
    /\ LookedUp =>
         LET order == Ascending(HeadingIdx)
         IN IF Matches(order) = {} THEN found = NilNode
            ELSE found.hid =
                    order[CHOOSE k \in Matches(order) : \A j \in Matches(order) : k <= j]

\* a heading asked for in another case than it is written, found in a child
\* that stands before a root of the same text
C12_Witness ==
    /\ LookedUp
    /\ found # NilNode
    /\ found.Text # Heading
    /\ found.Level = 2
    /\ \E i \in HeadingIdx :
          i > found.hid /\ doc[i].Level = 1 /\ EqualFold(doc[i].Text, Heading)

\* no heading matches
C12_WitnessNotFound ==
    LookedUp /\ found = NilNode /\ HeadingIdx # {}

\* C13: for a heading argument that matches no node of the tree the tool
\* reports the missing heading, spawns no subprocess and terminates with exit
\* code 1: it does not crash and does not exit 0.
C13_HeadingNotFound ==
    (LookedUp /\ found = NilNode) =>
        /\ pc = "exited"
        /\ exitCode = 1
        /\ errs # <<>>
        /\ runs = <<>>

---------------------------------------------------------------------------
(* C14, C15 *)

\* the candidates that are regular files: <<k, n>> is name n in the k-th
\* directory from the working directory up
Candidates ==
    LET up == Ancestors(fs.cwd)
    IN {c \in (DOMAIN up) \X (DOMAIN CandidateNames) :
            Join(up[c[1]], CandidateNames[c[2]]) \in fs.files}

\* the candidate of the nearest directory, and in it of the first name
NearestOf(cands) ==
    CHOOSE c \in cands :
        \A d \in cands : c[1] < d[1] \/ (c[1] = d[1] /\ c[2] <= d[2])

Nearest == NearestOf(Candidates)

C14_WitnessNearer ==
    /\ located = 1
    /\ Candidates # {}
    /\ Nearest[2] = 3
    /\ \E c \in Candidates : c[1] > Nearest[1] /\ c[2] = 1
    /\ Base(config.filePath) = readmeMd

\* a directory of the name {program}.md stands beside the README.md found
C14_WitnessDirectory ==
    /\ located = 1
    /\ Candidates # {}
    /\ Join(Ancestors(fs.cwd)[Nearest[1]], CandidateNames[1]) \in fs.dirs
    /\ Base(config.filePath) = readmeMd

\* C15: without --file and without a candidate in the working directory or
\* above it, the search ends at the root with not-found, and the tool reports
\* the missing document, parses nothing, spawns nothing and exits with code 1.
C15_DocumentNotFound ==
    (located = 1 /\ Candidates = {}) =>
        /\ pc = "exited"
        /\ exitCode = 1
        /\ errs # <<>>
        /\ doc = <<>>
        /\ runs = <<>>

---------------------------------------------------------------------------
(* C16 *)

\* C16: in the environment of every spawned subprocess, for every selected
\* node and every env table in the document, MD_FILE equals the resolved
\* document path and MD_EXE equals the path used to invoke the tool.
C16_ToolVariables ==
    \A r \in DOMAIN runs :
        LET child == EffectiveEnv(runs[r].Env)
        IN /\ {MD_FILE, MD_EXE} \subseteq DOMAIN child
           /\ child[MD_FILE] = config.filePath
           /\ child[MD_EXE] = osArgs[1]

\* C16 as amended: in the environment of every spawned subprocess MD_FILE
\* equals the resolved document path and MD_EXE the path used to invoke the
\* tool, unless an env table of the selected node or of one of its ancestors
\* defines the key: then the subprocess gets the value of the table.
C16_ToolVariablesUnlessTable ==
    \A r \in DOMAIN runs :
        LET child == EffectiveEnv(runs[r].Env)
            tree  == runs[r].envMap
        IN /\ {MD_FILE, MD_EXE} \subseteq DOMAIN child
           /\ child[MD_FILE] = IF MD_FILE \in DOMAIN tree THEN tree[MD_FILE]
                               ELSE config.filePath
           /\ child[MD_EXE] = IF MD_EXE \in DOMAIN tree THEN tree[MD_EXE]
                              ELSE osArgs[1]

\* a subprocess of a node without a table: MD_FILE is the document found in
\* the working directory, not the value the tool was started with
C16_Witness ==
    /\ runs # <<>>
    /\ located = 1
    /\ MD_FILE \notin DOMAIN runs[1].envMap
    /\ EffectiveEnv(runs[1].Env)[MD_FILE] = Join(fs.cwd, crMd)
    /\ EffectiveEnv(runs[1].Env)[MD_EXE] = dotCr
    /\ EffectiveEnv(StartEnv)[MD_FILE] # Join(fs.cwd, crMd)

\* a subprocess of a node whose table defines MD_FILE
C16_WitnessTable ==
    /\ runs # <<>>
    /\ MD_FILE \in DOMAIN runs[1].envMap
    /\ EffectiveEnv(runs[1].Env)[MD_FILE] = Str1("t")

---------------------------------------------------------------------------
(* C17 *)

\* the bodies of the code blocks the tree keeps of heading i, in the order of
\* the document
BodiesUnder(i) ==
    LET keep(b) == all \/ b.Info \in DOMAIN languageConfigs
        blocks  == SelectSeq(CodeUnder(i), keep)
    IN [k \in DOMAIN blocks |-> [kind |-> "code", body |-> blocks[k].Literal]]

\* C17: when --markdown or --code (or both) is set and the heading exists, no
\* subprocess is ever spawned: --markdown prints the markdown of the selected
\* node only (not its child headings or following siblings), --code prints the
\* bodies of the node's code blocks in document order, and the tool exits 0.
C17_PrintInsteadOfRun ==
    (LookedUp /\ found # NilNode /\ (config.markdown \/ config.code)) =>
        /\ runs = <<>>
        /\ pc \in {"print", "exited"}
        /\ pc = "exited" =>
             /\ exitCode = 0
             /\ out = (IF config.markdown
                       THEN << [kind |-> "markdown", body |-> <<found.hid>>] >>
                       ELSE <<>>)
                      \o (IF config.code THEN BodiesUnder(found.hid) ELSE <<>>)

---------------------------------------------------------------------------
(* C18 *)

\* the four forms of naming the document x.md
ExplicitForms ==
    { <<dashF, xMd>>, <<dashFxMd>>, <<dashFile, xMd>>, <<dashFileEqxMd>> }

\* C18: when the document is given in any accepted form (-f PATH, -fPATH,
\* --file PATH, --file=PATH) before the heading, the document parsed is
\* exactly PATH, the locator is not consulted, PATH is consumed by the option,
\* and the heading is the first argument after it that is no option.
C18_ExplicitDocument ==
    \A form \in ExplicitForms :
        (HasPrefix(Tail(osArgs), form \o <<hA>>) /\ pc # "args") =>
            /\ config.filePath = xMd
            /\ located = 0
            /\ arg_index = Len(form) + 1
            /\ Heading = hA
            /\ LookedUp => findNode(commands, hA) = NilNode \/ found.Text = hA

---------------------------------------------------------------------------
(* C19 *)

\* the options of the command line were accepted and main went on
OptionsAccepted ==
    pc # "args" /\ ParseOptionsFrom(prog, osArgs, 1, ZeroConfig).status = "ok"

\* the arguments after the heading
TrailingArgs == SubSeq(osArgs, arg_index + 2, Len(osArgs))

\* the command line up to and including the heading
UpToHeading ==
    SubSeq(osArgs, 1, IF arg_index < Len(osArgs) THEN arg_index + 1 ELSE Len(osArgs))

C19_WitnessHelp ==
    /\ OptionsAccepted
    /\ runs # <<>>
    /\ TrailingArgs = <<dashHelp>>
    /\ ~config.help
    /\ out = <<>>

\* a -f x.md behind the heading did not change the document
C19_WitnessFile ==
    /\ OptionsAccepted
    /\ runs # <<>>
    /\ TrailingArgs = <<dashF, xMd>>
    /\ config.filePath # xMd

---------------------------------------------------------------------------
(* C20 *)

\* the build is over: parseDoc (md_parse_file) has returned the tree
TreeBuilt == pc \notin {"args", "locate", "parse", "panic"}

\* C20: once the tree has been built, no later step (the heading lookup, the
\* printing of markdown or code, the hints, the execution) modifies a node of
\* it: the children, the sibling links, the code blocks, the env and the
\* description of every node stay as they were right after the build.
C20_TreeReadOnly ==
    [][TreeBuilt => UNCHANGED <<arrays, maps, commands>>]_vars

---------------------------------------------------------------------------
(* C21 *)

\* the least member of a non-empty set of places
Least(S) == CHOOSE x \in S : \A y \in S : x <= y

ParagraphsUnder(i) == {j \in SectionOf(i) : doc[j].type = "Paragraph"}
BlocksUnder(i) == {j \in SectionOf(i) : doc[j].type = "CodeBlock"}
KeptBlocksUnder(i) == {j \in BlocksUnder(i) : Retained(doc[j].Info)}

\* the text of the first paragraph among the places S, empty when S is empty
FirstText(S) == IF S = {} THEN <<>> ELSE Flatten(doc[Least(S)].Children)

\* C21: a paragraph sets the description of the current heading's node only if
\* the node has no description and no code block yet: the description is the
\* first paragraph under the heading that precedes all of its code blocks,
\* later paragraphs never change it, and a paragraph that follows a code block
\* never becomes the description.
C21_FirstParagraphIsDescription ==
    \A i \in HeadingIdx :
        TreeNode(i).Description =
            FirstText({j \in ParagraphsUnder(i) : \A k \in BlocksUnder(i) : j < k})

\* C21 as the builder has it: the description is the text of the first
\* paragraph under the heading that has text and precedes every code block the
\* node retains; later paragraphs never change it, and a paragraph that follows
\* a retained code block never becomes the description.  A paragraph without
\* text leaves the node without description, and a code block that is not
\* retained does not close the description.
C21_FirstTextBeforeRetainedBlock ==
    \A i \in HeadingIdx :
        TreeNode(i).Description =
            FirstText({j \in ParagraphsUnder(i) :
                          /\ Flatten(doc[j].Children) # <<>>
                          /\ \A k \in KeptBlocksUnder(i) : j < k})

\* two paragraphs with different texts under one heading: the first is the
\* description
C21_Witness ==
    \E i \in HeadingIdx :
        \E j, k \in ParagraphsUnder(i) :
            /\ j < k
            /\ Flatten(doc[j].Children) # <<>>
            /\ Flatten(doc[k].Children) \notin {<<>>, Flatten(doc[j].Children)}
            /\ TreeNode(i).Description = Flatten(doc[j].Children)

\* a paragraph after a retained code block: the node has no description
C21_WitnessAfterBlock ==
    \E i \in HeadingIdx :
        /\ KeptBlocksUnder(i) # {}
        /\ \E j \in ParagraphsUnder(i) :
              Flatten(doc[j].Children) # <<>> /\ Least(KeptBlocksUnder(i)) < j
        /\ TreeNode(i).Description = <<>>

\* a paragraph after a code block that was not retained is the description
C21_WitnessAfterDroppedBlock ==
    \E i \in HeadingIdx :
        /\ BlocksUnder(i) # {} /\ KeptBlocksUnder(i) = {}
        /\ \E j \in ParagraphsUnder(i) :
              /\ Least(BlocksUnder(i)) < j
              /\ TreeNode(i).Description = Flatten(doc[j].Children)
              /\ TreeNode(i).Description # <<>>

---------------------------------------------------------------------------
(* C22 *)

\* the places of the document before its first heading
BeforeFirstHeading == {j \in DOMAIN doc : \A k \in 1..j : doc[k].type # "Heading"}

\* the Env the tables at the given places write, one after the other
RECURSIVE EnvOfTables(_, _)
EnvOfTables(places, env) ==
    IF places = <<>> THEN env
    ELSE EnvOfTables(Tail(places), WalkRows(TableRows(doc[Head(places)]), env).env)

\* what the section of heading i gives its node
SectionEnv(i) == EnvOfTables(Ascending(TablesUnder(i)), <<>>)
SectionBlocks(i) == SelectSeq(CodeUnder(i), LAMBDA b : Retained(b.Info))
SectionDescription(i) ==
    FirstText({j \in ParagraphsUnder(i) :
                  /\ Flatten(doc[j].Children) # <<>>
                  /\ \A k \in KeptBlocksUnder(i) : j < k})

\* the sections of a heading and of its ancestors, the nearest winning
RECURSIVE ChainEnv(_)
ChainEnv(chain) ==
    IF chain = <<>> THEN <<>> ELSE SectionEnv(Head(chain)) @@ ChainEnv(Tail(chain))

\* C22: paragraphs, code blocks and tables before the first heading of the
\* document are attached to no node: the tree has a node per heading and no
\* other, the description, code blocks and env of every node are those of the
\* content under its own heading, no map is made for a table before the first
\* heading, and the environment and the command of every run are those of the
\* sections of the executed heading and of its ancestors.
C22_ContentBeforeFirstHeading ==
    /\ HeadingIdx = {} =>
          arrays = <<>> /\ maps = <<>> /\ commands = nilSlice /\ stack = <<>>
    /\ Cardinality(TreeNodes(commands)) = Cardinality(HeadingIdx)
    /\ Len(maps) = Cardinality({i \in HeadingIdx : TablesUnder(i) # {}})
    /\ \A i \in HeadingIdx :
          /\ TreeNode(i).Description = SectionDescription(i)
          /\ TreeNode(i).CodeBlocks = SectionBlocks(i)
          /\ EnvOf(TreeNode(i)) = SectionEnv(i)
    /\ \A r \in DOMAIN runs :
          LET b == SectionBlocks(found.hid)[runs[r].blk]
          IN /\ runs[r].envMap = ChainEnv(Chain(found.hid))
             /\ runs[r].Env = CmdEnv(environ, ChainEnv(Chain(found.hid)))
             /\ runs[r].Args = CmdArgs(languageConfigs[b.Info], b.Literal, args)

\* a table with the key B and the block exit 1 stand before the first heading,
\* and a heading with another block was run: no B in its environment, and the
\* block before the heading was not run
C22_Witness ==
    /\ runs # <<>>
    /\ \E j, k \in BeforeFirstHeading :
          /\ doc[j].type = "Table" /\ doc[j].Rows = KeyValueTable2.Rows
          /\ doc[k].type = "CodeBlock" /\ doc[k].Literal = exit1
    /\ Str1("B") \notin DOMAIN runs[1].envMap
    /\ Len(found.CodeBlocks) = 1
    /\ found.CodeBlocks[1].Literal = echoHi

\* a paragraph before the first heading, and the first heading has no
\* description
C22_WitnessParagraph ==
    /\ pc = "parsed"
    /\ \E j \in BeforeFirstHeading : doc[j].type = "Paragraph"
    /\ HeadingIdx # {}
    /\ \A i \in HeadingIdx : TreeNode(i).Description = <<>>

---------------------------------------------------------------------------
(* C23 *)

\* the code blocks of the document whose tag has no dispatch entry
UnknownBlocks ==
    {j \in DOMAIN doc : doc[j].type = "CodeBlock" /\ doc[j].Info \notin DOMAIN languageConfigs}

\* C23: building the tree never fails because of an unrecognized language tag,
\* with or without the all-languages flag: the walk goes on after such a block
\* and parseDoc returns the tree of the headings.  Without the flag every block
\* of every node of the tree has a dispatch entry, and no execution ends in
\* UnsupportedLanguage.
C23_NoUnsupportedWithoutFlag ==
    /\ pc # "panic"
    /\ Mirrors(commands, 0)
    /\ ~all =>
          /\ \A n \in TreeNodes(commands) :
                \A k \in DOMAIN n.CodeBlocks :
                    n.CodeBlocks[k].Info \in DOMAIN languageConfigs
          /\ result # "unsupported"

\* without the flag, a heading with a block of an unknown language and a block
\* of a known one was executed to its end: the tree was built and the run did
\* not end in UnsupportedLanguage
C23_Witness ==
    /\ ~all
    /\ pc = "done"
    /\ result = "nil"
    /\ runs # <<>>
    /\ \E j \in UnknownBlocks : j \in SectionOf(found.hid)

\* with the flag the tree is built as well, and the run of the unknown block
\* ends in UnsupportedLanguage
C23_WitnessFlag ==
    /\ all
    /\ pc = "done"
    /\ result = "unsupported"
    /\ UnknownBlocks # {}

---------------------------------------------------------------------------
(* C24 *)

\* the heading processed last
LastHeading == CHOOSE i \in HeadingIdx : \A j \in HeadingIdx : j <= i

\* pointer p is to an element of slice h
PointsInto(p, h) == p.arr = h.arr /\ p.arr # 0 /\ p.idx \in 1..h.len

\* C24: once a heading has been processed the heading stack is non-empty, its
\* levels strictly increase from bottom to top, its top is the node of the
\* heading processed last, its bottom is a root, and each element above the
\* bottom is a child of the element directly below it (and has it as Parent);
\* so a paragraph, code block or table is written to the node of the most
\* recent heading.
C24_HeadingStack ==
    HeadingIdx # {} =>
        /\ stack # <<>>
        /\ \A k \in 1..(Len(stack) - 1) :
              Deref(arrays, stack[k]).Level < Deref(arrays, stack[k + 1]).Level
        /\ Deref(arrays, Top(stack)).hid = LastHeading
        /\ Deref(arrays, Top(stack)) = TreeNode(LastHeading)
        /\ PointsInto(stack[1], commands)
        /\ \A k \in 1..(Len(stack) - 1) :
              /\ PointsInto(stack[k + 1], Deref(arrays, stack[k]).Children)
              /\ Deref(arrays, stack[k + 1]).Parent = stack[k]
        /\ [k \in DOMAIN stack |-> Deref(arrays, stack[k]).hid]
              = Ascending({c \in HeadingIdx :
                             \E x \in DOMAIN Chain(LastHeading) : Chain(LastHeading)[x] = c})
        /\ TreeNode(LastHeading).CodeBlocks = SectionBlocks(LastHeading)
        /\ EnvOf(TreeNode(LastHeading)) = SectionEnv(LastHeading)

\* headings of levels 1, 2, 3 and then 2: the stack was popped to the first
\* heading and holds it and the fourth, and a block after the fourth heading
\* is in its node
C24_Witness ==
    /\ Cardinality(HeadingIdx) = 4
    /\ Len(stack) = 2
    /\ Deref(arrays, stack[1]).hid = 1
    /\ Deref(arrays, stack[2]).hid = 4
    /\ Len(doc) = 5 /\ doc[5].type = "CodeBlock"
    /\ Len(Deref(arrays, Top(stack)).CodeBlocks) = 1

---------------------------------------------------------------------------
(* C25 *)

\* the backing arrays the tree refers to; an array append has left behind is
\* not among them
LiveArrays ==
    ({commands.arr} \cup {n.Children.arr : n \in TreeNodes(commands)}) \ {0}

StaleArrays == (1..Len(arrays)) \ LiveArrays

\* C25: although the slices the stack points into grow by append, which may
\* copy the elements to a new array, every pointer on the stack is to a node
\* of the tree, never to a copy left behind, and every child, code block, env
\* entry and description written through the stack is in the tree parseDoc
\* returns.
C25_NoWriteToStaleCopy ==
    /\ \A k \in DOMAIN stack :
          /\ stack[k].arr \in LiveArrays
          /\ Deref(arrays, stack[k]) \in TreeNodes(commands)
          /\ Deref(arrays, stack[k]) = TreeNode(Deref(arrays, stack[k]).hid)
    /\ Mirrors(commands, 0)
    /\ Cardinality(TreeNodes(commands)) = Cardinality(HeadingIdx)
    /\ Len(maps) = Cardinality({i \in HeadingIdx : TablesUnder(i) # {}})
    /\ \A i \in HeadingIdx :
          /\ TreeNode(i).Description = SectionDescription(i)
          /\ TreeNode(i).CodeBlocks = SectionBlocks(i)
          /\ EnvOf(TreeNode(i)) = SectionEnv(i)

\* parseDoc returned after append moved the roots and the children of a root
\* to new arrays, and the node of the last heading, a child, has the block that
\* was written after the moves
C25_Witness ==
    /\ pc = "parsed"
    /\ Cardinality(StaleArrays) >= 2
    /\ commands.len = 2
    /\ NearestShallower(LastHeading) # 0
    /\ Len(doc) = LastHeading + 1
    /\ TreeNode(LastHeading).CodeBlocks # <<>>

\* the same with a description and an env entry on a root that was moved
C25_WitnessRoot ==
    /\ pc = "parsed"
    /\ StaleArrays # {}
    /\ NearestShallower(LastHeading) = 0 /\ LastHeading > 1
    /\ TreeNode(LastHeading).Description # <<>>
    /\ EnvOf(TreeNode(LastHeading)) # <<>>

---------------------------------------------------------------------------
(* C26 *)

\* for parent := cmdNode.Parent; parent != nil; parent = parent.Parent:
\* the nodes the loop visits
RECURSIVE ParentWalk(_)
ParentWalk(parent) ==
    IF parent = nilPtr THEN <<>>
    ELSE <<Deref(arrays, parent)>> \o ParentWalk(Deref(arrays, parent).Parent)

\* C26: for the node findNode returned, the walk along the Parent pointers
\* visits exactly the ancestors of the node in the tree, the nearest first,
\* the last of them a root, and the Env read at each visited parent is the env
\* of that ancestor in the returned tree, also when append has moved the
\* siblings or the roots to a new array after the pointer was taken.
C26_ParentPointers ==
    (LookedUp /\ found # NilNode) =>
        LET visited   == ParentWalk(found.Parent)
            ancestors == Tail(Chain(found.hid))
        IN /\ [k \in DOMAIN visited |-> visited[k].hid] = ancestors
           /\ \A k \in DOMAIN visited :
                 /\ visited[k].Level = doc[ancestors[k]].Level
                 /\ EnvOf(visited[k]) = EnvAt(ancestors[k])
                 /\ EnvOf(visited[k]) = SectionEnv(ancestors[k])
           /\ visited # <<>> => visited[Len(visited)].Parent = nilPtr
           /\ found = TreeNode(found.hid)

\* the node found has a parent and a grandparent with tables of their own, and
\* its Parent points into an array that append has left behind
C26_Witness ==
    /\ LookedUp /\ found # NilNode
    /\ Len(ParentWalk(found.Parent)) = 2
    /\ found.Parent.arr \in StaleArrays
    /\ \A k \in 1..2 : EnvOf(ParentWalk(found.Parent)[k]) # <<>>
    /\ EnvOf(ParentWalk(found.Parent)[1]) # EnvOf(ParentWalk(found.Parent)[2])

\* the Parent of the found node's parent points to a root in an array that
\* append has left behind
C26_WitnessRootMoved ==
    /\ LookedUp /\ found # NilNode
    /\ Len(ParentWalk(found.Parent)) = 2
    /\ ParentWalk(found.Parent)[1].Parent.arr \in StaleArrays

---------------------------------------------------------------------------
(* C27 *)

\* the widest line of the plain tree of a root
Widest(cmdNode) == MaxLine(TreeLines(cmdNode), 0)

\* the hints that were printed: the counts given to strings.Repeat
HintCounts == {rec \in {out[k] : k \in DOMAIN out} : rec.kind = "hints"}

\* C27: in the hint renderer, for every forest of roots and every rendered
\* heading, the count given to strings.Repeat, maxLineRuneLen - (level+1)*4 -
\* len(heading), is never negative, although the maximum line width grows root
\* by root and a root is rendered before the roots after it are measured: the
\* renderer never panics, and every count of what it printed is at least 0.
C27_PaddingNeverNegative ==
    /\ pc # "hintpanic"
    /\ \A rec \in HintCounts : \A k \in DOMAIN rec.body : rec.body[k] >= 0
    /\ pc \in {"parsed", "exited"} =>
          \A k \in DOMAIN showHints(Elems(arrays, commands), 0, config.verbose) :
              showHints(Elems(arrays, commands), 0, config.verbose)[k] >= 0

\* the hints of two roots were printed, the second root has a wider line than
\* the first, and a heading of the first root was padded with no space at all
C27_Witness ==
    /\ HintCounts # {}
    /\ commands.len = 2
    /\ Widest(Elems(arrays, commands)[1]) > 1
    /\ Widest(Elems(arrays, commands)[2]) > Widest(Elems(arrays, commands)[1])
    /\ \E rec \in HintCounts : rec.body # <<>> /\ rec.body[1] = 0

\* a heading at the third level was rendered, below a wider line of the second
C27_WitnessDeep ==
    /\ HintCounts # {}
    /\ \E n \in TreeNodes(commands) :
          n.Level = 3 /\ Hinted(n) /\ Len(Chain(n.hid)) = 3
    /\ \E rec \in HintCounts : \E k \in DOMAIN rec.body : rec.body[k] > 0

====
